---- MODULE Spec2Model ----
(***************************************************************************)
(* Bank Statement Repair and Forensic Validation Engine.                   *)
(*                                                                         *)
(* The statement normalizer (services/excel_normalizer.py) and the         *)
(* validation engine (services/validation.py) as state machines.  Money    *)
(* is counted in hundredths of a currency unit, so the tolerance 0.05 is   *)
(* the integer 5.  A date is the integer y*10000 + m*100 + d.  A text is   *)
(* a sequence of one-character strings, so that the substring and ratio    *)
(* tests of the code are computed and not assumed.                         *)
(***************************************************************************)
EXTENDS Integers, Sequences, FiniteSets, TLC

(***************************************************************************)
(* Python values: None, a number, a string, a datetime, a list or a dict.  *)
(***************************************************************************)
None == [k |-> "none", v |-> 0, s |-> <<>>]
Num(n) == [k |-> "num", v |-> n, s |-> <<>>]
Text(t) == [k |-> "str", v |-> 0, s |-> t]
DateTime(d) == [k |-> "dt", v |-> d, s |-> <<>>]
\* the outcome of an evaluation that raised an exception
Raised == [k |-> "raise", v |-> 0, s |-> <<>>]

\* Python truthiness of a value ("value or default").
Truthy(x) ==
  CASE x.k = "none" -> FALSE
    [] x.k = "num" -> x.v # 0
    [] x.k = "str" -> x.s # <<>>
    [] OTHER -> TRUE

Abs(n) == IF n < 0 THEN -n ELSE n
Min(a, b) == IF a < b THEN a ELSE b
Max(a, b) == IF a > b THEN a ELSE b

(***************************************************************************)
(* Characters and strings.                                                 *)
(***************************************************************************)
LowerLetters == <<"a","b","c","d","e","f","g","h","i","j","k","l","m",
                  "n","o","p","q","r","s","t","u","v","w","x","y","z">>
UpperLetters == <<"A","B","C","D","E","F","G","H","I","J","K","L","M",
                  "N","O","P","Q","R","S","T","U","V","W","X","Y","Z">>
DigitChars == <<"0","1","2","3","4","5","6","7","8","9">>

Range(f) == {f[i] : i \in DOMAIN f}
IndexOf(c, seq) == IF \E i \in DOMAIN seq : seq[i] = c THEN CHOOSE i \in DOMAIN seq : seq[i] = c ELSE 0

LowerSet == Range(LowerLetters)
UpperSet == Range(UpperLetters)
DigitSet == Range(DigitChars)
IsLower(c) == c \in LowerSet
IsUpper(c) == c \in UpperSet
IsAlpha(c) == IsLower(c) \/ IsUpper(c)
IsDigit(c) == c \in DigitSet
IsSpace(c) == c = " "
IsAlnum(c) == IsAlpha(c) \/ IsDigit(c)
DigitVal(c) == IndexOf(c, DigitChars) - 1

LowerChar(c) == IF IsUpper(c) THEN LowerLetters[IndexOf(c, UpperLetters)] ELSE c
UpperChar(c) == IF IsLower(c) THEN UpperLetters[IndexOf(c, LowerLetters)] ELSE c
Lower(t) == [i \in 1..Len(t) |-> LowerChar(t[i])]
Upper(t) == [i \in 1..Len(t) |-> UpperChar(t[i])]

\* str.strip()
Strip(t) ==
  IF \A i \in 1..Len(t) : IsSpace(t[i]) THEN <<>>
  ELSE LET a == CHOOSE i \in 1..Len(t) : ~IsSpace(t[i]) /\ \A j \in 1..(i-1) : IsSpace(t[j])
           b == CHOOSE i \in 1..Len(t) : ~IsSpace(t[i]) /\ \A j \in (i+1)..Len(t) : IsSpace(t[j])
       IN SubSeq(t, a, b)

\* "sub in t"
MatchAt(sub, t, i) ==
  i >= 1 /\ i + Len(sub) - 1 <= Len(t) /\ \A j \in 1..Len(sub) : t[i + j - 1] = sub[j]
Contains(sub, t) == \E i \in 1..(Len(t) + 1) : MatchAt(sub, t, i)

\* the entries of t at the positions keep, in order
Pick(t, keep) ==
  [k \in 1..Cardinality(keep) |-> t[CHOOSE i \in keep : Cardinality({j \in keep : j <= i}) = k]]
\* the characters of t that are not in the set drop
Filter(t, drop) == Pick(t, {i \in 1..Len(t) : t[i] \notin drop})

\* the number of decimal digits of a natural number n below 10^10
DigitCount(n) == CHOOSE k \in 1..10 : (k = 1 \/ n >= 10^(k - 1)) /\ (k = 10 \/ n < 10^k)
DigitsOf(n, k) == [i \in 1..k |-> DigitChars[((n \div 10^(k - i)) % 10) + 1]]
\* str(n) for a natural number n
NatStr(n) == DigitsOf(n, DigitCount(n))
\* the digits d after zeros that bring them to w characters (strftime's zero padding)
PadTo(d, w) == [i \in 1..(w - Len(d)) |-> "0"] \o d

RECURSIVE NatVal(_)
\* int(t) for a string of digits: the two halves of t, the first one shifted
NatVal(t) ==
  IF t = <<>> THEN 0
  ELSE IF Len(t) = 1 THEN DigitVal(t[1])
  ELSE NatVal(SubSeq(t, 1, Len(t) \div 2)) * 10^(Len(t) - Len(t) \div 2)
       + NatVal(SubSeq(t, Len(t) \div 2 + 1, Len(t)))

AllDigits(t) == \A i \in 1..Len(t) : IsDigit(t[i])

\* datetime.strftime("%Y-%m-%d")
IsoOf(digits) == SubSeq(digits, 1, 4) \o <<"-">> \o SubSeq(digits, 5, 6) \o <<"-">> \o SubSeq(digits, 7, 8)
IsoStr(d) == IsoOf(PadTo(NatStr(d), 8))

\* str(number): an integral amount prints as an int, another one with its decimals
Decimals(frac) ==
  IF frac = 0 THEN <<>>
  ELSE <<".">> \o (IF frac % 10 = 0 THEN NatStr(frac \div 10) ELSE PadTo(NatStr(frac), 2))
UnsignedStr(a) == NatStr(a \div 100) \o Decimals(a % 100)
NumStr(n) == (IF n < 0 THEN <<"-">> ELSE <<>>) \o UnsignedStr(Abs(n))

s_None == <<"N","o","n","e">>
\* str(value)
Str(x) ==
  CASE x.k = "none" -> s_None
    [] x.k = "num" -> NumStr(x.v)
    [] x.k = "dt" -> IsoStr(x.v) \o <<" ","0","0",":","0","0",":","0","0">>
    [] OTHER -> x.s
\* str(value or "")
StrOrEmpty(x) == IF Truthy(x) THEN Str(x) ELSE <<>>

(***************************************************************************)
(* float(s): an optional sign, digits and at most one point.  The value is *)
(* in hundredths; inputs carry at most two decimals.                       *)
(***************************************************************************)
IsFloatBody(t) ==
  /\ \A i \in 1..Len(t) : IsDigit(t[i]) \/ t[i] = "."
  /\ Cardinality({i \in 1..Len(t) : t[i] = "."}) <= 1
  /\ \E i \in 1..Len(t) : IsDigit(t[i])
\* the position of the point, one past the end when there is none
PointAt(t) == IF \E i \in 1..Len(t) : t[i] = "." THEN CHOOSE i \in 1..Len(t) : t[i] = "." ELSE Len(t) + 1
\* the digits before position p and the first two digits after it, as hundredths
HundredthsAt(t, p) == NatVal(SubSeq(t, 1, p - 1) \o SubSeq(SubSeq(t, p + 1, Len(t)) \o <<"0","0">>, 1, 2))
FloatBodyVal(t) == HundredthsAt(t, PointAt(t))
HasSign(t) == Len(t) > 0 /\ t[1] \in {"-", "+"}
Unsigned(t) == IF HasSign(t) THEN Tail(t) ELSE t
SignOf(t) == IF Len(t) > 0 /\ t[1] = "-" THEN -1 ELSE 1
IsFloat(t) == IsFloatBody(Unsigned(t))
FloatVal(t) == SignOf(t) * FloatBodyVal(Unsigned(t))

(***************************************************************************)
(* excel_normalizer.py                                                     *)
(***************************************************************************)
HEADER_ALIASES ==
  [
     date |->
    <<<<"t","r","a","n"," ","d","a","t","e">>,
       <<"t","x","n"," ","d","a","t","e">>,
       <<"t","r","a","n","s","a","c","t","i","o","n"," ","d","a","t","e">>,
       <<"d","a","t","e">>,
       <<"v","a","l","u","e"," ","d","a","t","e">>,
       <<"p","o","s","t","i","n","g"," ","d","a","t","e">>>>,
     description |->
    <<<<"p","a","r","t","i","c","u","l","a","r","s">>,
       <<"d","e","s","c","r","i","p","t","i","o","n">>,
       <<"n","a","r","r","a","t","i","o","n">>,
       <<"t","r","a","n","s","a","c","t","i","o","n"," ","d","e","t","a","i","l","s">>,
       <<"d","e","t","a","i","l","s">>,
       <<"m","e","m","o">>>>,
     debit |->
    <<<<"d","e","b","i","t">>,
       <<"w","i","t","h","d","r","a","w","a","l">>,
       <<"w","i","t","h","d","r","a","w","a","l","s">>,
       <<"d","r">>,
       <<"d","e","b","i","t"," ","a","m","o","u","n","t">>>>,
     credit |->
    <<<<"c","r","e","d","i","t">>,
       <<"d","e","p","o","s","i","t">>,
       <<"d","e","p","o","s","i","t","s">>,
       <<"c","r">>,
       <<"c","r","e","d","i","t"," ","a","m","o","u","n","t">>>>,
     balance |->
    <<<<"b","a","l","a","n","c","e">>,
       <<"c","l","o","s","i","n","g"," ","b","a","l","a","n","c","e">>,
       <<"b","a","l","a","n","c"," ","e">>,
       <<"r","u","n","n","i","n","g"," ","b","a","l","a","n","c","e">>,
       <<"b","a","l","a","n","c","e"," ","a","f","t","e","r">>>>,
     cheque |->
    <<<<"c","h","q"," ","n","o">>,
       <<"c","h","e","q","u","e"," ","n","o">>,
       <<"c","h","q"," ","n","o",".">>,
       <<"r","e","f"," ","n","o",".","/","c","h","e","q","u","e"," ","n","o",".">>,
       <<"r","e","f"," ","n","o">>,
       <<"r","e","f","e","r","e","n","c","e">>>>
  ]
Semantics == <<"date", "description", "debit", "credit", "balance", "cheque">>

\* the characters _safe_float removes: the class [rupee $ euro pound , \s]
CurrencyNoise == {"<rupee>", "$", "<euro>", "<pound>", ",", " "}

\* the group of ^\(([\d.]+)\)$ when it matches, else the empty string
ParenGroup(t) ==
  IF /\ Len(t) >= 3
     /\ t[1] = "(" /\ t[Len(t)] = ")"
     /\ \A i \in 2..(Len(t) - 1) : IsDigit(t[i]) \/ t[i] = "."
  THEN SubSeq(t, 2, Len(t) - 1)
  ELSE <<>>

\* _safe_float: a number, None, or Raised when float() raises outside the try
\* float(body) under a sign; fail is what becomes of the ValueError
FloatOr(body, sign, fail) == IF IsFloatBody(body) THEN Num(sign * FloatBodyVal(body)) ELSE fail
\* s the cleaned text, g its parenthesized group: float(g) is outside the try, float(s) inside
SafeFloatOf(s, g) ==
  IF g # <<>> THEN FloatOr(g, -1, Raised) ELSE FloatOr(Unsigned(s), SignOf(s), None)
SafeFloatText(s) == SafeFloatOf(s, ParenGroup(s))
SafeFloat(value) ==
  IF value.k = "none" \/ (value.k = "str" /\ (value.s = <<>> \/ value.s = s_None)) THEN None
  ELSE SafeFloatText(Filter(Strip(Str(value)), CurrencyNoise))

(***************************************************************************)
(* The worksheet: a sequence of rows, each a sequence of cell values.      *)
(* A cell beyond the stored ones reads as None, as ws.cell() gives.        *)
(***************************************************************************)
MaxRow(ws) == Max(1, Len(ws))
MaxColumn(ws) ==
  IF ws = <<>> THEN 1
  ELSE Max(1, CHOOSE n \in {Len(ws[r]) : r \in 1..Len(ws)} : \A r \in 1..Len(ws) : Len(ws[r]) <= n)
Cell(ws, r, c) == IF r \in 1..Len(ws) /\ c \in 1..Len(ws[r]) THEN ws[r][c] ELSE None

(***************************************************************************)
(* _is_garbage_text                                                        *)
(***************************************************************************)
\* re.search(a \s+ b) when least = 1, re.search(a \s* b) when least = 0
SearchSpaced(a, b, least, t) ==
  \E i \in 1..Len(t) : \E n \in least..Len(t) :
     /\ MatchAt(a, t, i)
     /\ \A j \in (i + Len(a))..(i + Len(a) + n - 1) : j <= Len(t) /\ IsSpace(t[j])
     /\ MatchAt(b, t, i + Len(a) + n)
\* re.search(a .* b)
SearchThen(a, b, t) ==
  \E i \in 1..Len(t) : \E j \in (i + Len(a))..Len(t) : MatchAt(a, t, i) /\ MatchAt(b, t, j)
\* re.search(\$\d+)
SearchDollarDigits(t) == \E i \in 1..(Len(t) - 1) : t[i] = "$" /\ IsDigit(t[i + 1])

GarbagePattern(lower) ==
  \/ SearchSpaced(<<"u","n","r","i","n","g","s">>, <<"i","c","e","a","s","e">>, 1, lower)
  \/ SearchThen(<<"p","h","e","r","a","t","e">>, <<"v","u","m","a","r">>, lower)
  \/ SearchSpaced(<<"0","5","1","1">>, <<"n","n">>, 0, lower)
  \/ SearchDollarDigits(lower)

\* alnum: the number of characters c with c.isalnum() or c.isspace()
GarbageCounted(text) == Cardinality({i \in 1..Len(text) : IsAlnum(text[i]) \/ IsSpace(text[i])})
GarbageMinLen == 5
\* len(text) > 5 and alnum / len(text) < 0.3
GarbageRatioLow(text) == Len(text) > GarbageMinLen /\ GarbageCounted(text) * 10 < 3 * Len(text)

IsGarbageText(text) ==
  IF text = <<>> THEN FALSE
  ELSE GarbagePattern(Strip(Lower(text))) \/ GarbageRatioLow(text)

(***************************************************************************)
(* _is_header_text, _detect_header_row                                     *)
(***************************************************************************)
AliasSet == [sem \in Range(Semantics) |-> Range(HEADER_ALIASES[sem])]
AllAliases == UNION {AliasSet[sem] : sem \in Range(Semantics)}
IsAlias(text) == text # <<>> /\ text \in AllAliases
IsHeaderText(value) == value.k # "none" /\ IsAlias(Lower(Strip(Str(value))))

HeaderMaxScan == 30
\* cell_text in aliases or any(a in cell_text for a in aliases)
MatchesAlias(cell_text, sem) ==
  cell_text # <<>> /\ \E a \in AliasSet[sem] : cell_text = a \/ Contains(a, cell_text)
HeaderCellText(ws, r, c) == Lower(Strip(StrOrEmpty(Cell(ws, r, c))))
\* mapping[semantic]: the first column whose text matches, 0 when there is none
FirstOf(hit) == IF hit = {} THEN 0 ELSE CHOOSE c \in hit : \A d \in hit : c <= d
MappingOf(cells) == [sem \in Range(Semantics) |-> FirstOf({c \in 1..Len(cells) : MatchesAlias(cells[c], sem)})]
RowMapping(ws, r) == MappingOf([c \in 1..MaxColumn(ws) |-> HeaderCellText(ws, r, c)])
NoMapping == [sem \in Range(Semantics) |-> 0]
\* a header test that does not ask for a date column
IsHeaderWithoutDate(m) == m["debit"] # 0 \/ m["credit"] # 0 \/ m["description"] # 0
\* Need at least date + (debit or credit or description) to be a header row
IsHeaderMapping(m) == m["date"] # 0 /\ (m["debit"] # 0 \/ m["credit"] # 0 \/ m["description"] # 0)
RECURSIVE DetectHeaderFrom(_, _)
\* row r with its mapping m: the header, or the search goes on
HeaderAt(ws, r, m) ==
  IF IsHeaderMapping(m) THEN [row |-> r, map |-> m] ELSE DetectHeaderFrom(ws, r + 1)
DetectHeaderFrom(ws, r) ==
  IF r > Min(HeaderMaxScan, MaxRow(ws)) THEN [row |-> -1, map |-> NoMapping]
  ELSE HeaderAt(ws, r, RowMapping(ws, r))
DetectHeaderRow(ws) == DetectHeaderFrom(ws, 1)

\* the fallback layout of normalize_excel_statement and the defaults of col_map.get
DefaultDateCol == 2
DefaultDescCol == 4
DefaultDebitCol == 5
DefaultCreditCol == 6
DefaultBalanceCol == 7
DefaultMapping ==
  [sem \in Range(Semantics) |->
     CASE sem = "date" -> DefaultDateCol
       [] sem = "description" -> DefaultDescCol
       [] sem = "debit" -> DefaultDebitCol
       [] sem = "credit" -> DefaultCreditCol
       [] sem = "balance" -> DefaultBalanceCol
       [] OTHER -> 0]
\* col_map.get(sem, default)
ColOf(map, sem) == IF map[sem] # 0 THEN map[sem] ELSE DefaultMapping[sem]

(***************************************************************************)
(* _extract_summary_balances                                               *)
(***************************************************************************)
SummaryMaxScan == 25
SummaryMaxCol == 9
SummaryReach == 4

\* the first entry of nums from position from on that is not None
FirstNumeric(nums, from) ==
  IF \E c \in from..Len(nums) : nums[c].k # "none"
  THEN nums[CHOOSE c \in from..Len(nums) : nums[c].k # "none" /\ \A d \in from..(c - 1) : nums[d].k = "none"]
  ELSE None
\* the value a label gives: f the first number right of it, v the number of
\* column 2, cur the value found so far
LabelValue(f, v, cur) ==
  IF f.k = "num" THEN f ELSE IF cur.k = "none" /\ v.k = "num" THEN v ELSE cur

IsOpeningLabel(text) == Contains(<<"O","P","E","N","I","N","G"," ","B","A","L","A","N","C","E">>, text) \/ Contains(<<"O","P","E","N","I","N","G"," ","B","A","L">>, text)
IsClosingLabel(text) == Contains(<<"C","L","O","S","I","N","G"," ","B","A","L","A","N","C","E">>, text) \/ Contains(<<"C","L","O","S","I","N","G"," ","B","A","L">>, text)

\* one cell of the scan: acc is [opening, closing], or Raised
SummaryLabelled(isOpening, isClosing, f, v, acc) ==
  IF ~(isOpening \/ isClosing) THEN acc
  ELSE IF f.k = "raise" \/ v.k = "raise" THEN [opening |-> Raised, closing |-> Raised]
  ELSE [opening |-> IF isOpening THEN LabelValue(f, v, acc.opening) ELSE acc.opening,
        closing |-> IF isClosing THEN LabelValue(f, v, acc.closing) ELSE acc.closing]
\* text the label, nums the _safe_float of the cells c+1 .. c+4 of the row
SummaryText(text, nums, v, acc) ==
  SummaryLabelled(IsOpeningLabel(text), IsClosingLabel(text), FirstNumeric(nums, 1), v, acc)
SummaryCell(ws, r, c, acc) ==
  IF Cell(ws, r, c).k = "none" THEN acc
  ELSE SummaryText(Upper(Strip(Str(Cell(ws, r, c)))),
                   [i \in 1..(Min(MaxColumn(ws), c + SummaryReach) - c) |-> SafeFloat(Cell(ws, r, c + i))],
                   SafeFloat(Cell(ws, r, 2)), acc)

RECURSIVE SummaryRow(_, _, _, _)
\* the cells of row r from column c on; a raise ends the scan
SummaryRow(ws, r, c, acc) ==
  IF acc.opening.k = "raise" \/ c > Min(MaxColumn(ws), SummaryMaxCol) THEN acc
  ELSE SummaryRow(ws, r, c + 1, SummaryCell(ws, r, c, acc))
RECURSIVE SummaryScan(_, _, _)
\* the rows from r on
SummaryScan(ws, r, acc) ==
  IF acc.opening.k = "raise" \/ r > Min(SummaryMaxScan, MaxRow(ws)) THEN acc
  ELSE SummaryScan(ws, r + 1, SummaryRow(ws, r, 1, acc))
ExtractSummaryBalances(ws) == SummaryScan(ws, 1, [opening |-> None, closing |-> None])

(***************************************************************************)
(* _try_parse_date.  dateutil's parser is modelled on the shapes the       *)
(* statements carry: three numbers (d/m/y, y-m-d), day month-name year,    *)
(* and day month-name, where the missing year is the one of the current    *)
(* date (dateutil's default is today).  Any other text is a ParserError.   *)
(***************************************************************************)
MonthNames == <<<<"j","a","n">>, <<"f","e","b">>, <<"m","a","r">>, <<"a","p","r">>, <<"m","a","y">>, <<"j","u","n">>, <<"j","u","l">>, <<"a","u","g">>, <<"s","e","p">>, <<"o","c","t">>, <<"n","o","v">>, <<"d","e","c">>>>
DateSeparators == {" ", "/", "-", ".", ","}
CharClass(c) == IF IsDigit(c) THEN "d" ELSE IF IsAlpha(c) THEN "a" ELSE IF c \in DateSeparators THEN "s" ELSE "x"
Classes(t) == [i \in 1..Len(t) |-> CharClass(t[i])]
\* cls the classes of the characters: where the runs of digits and of letters start and end
TokenStarts(cls) ==
  {i \in 1..Len(cls) : cls[i] \in {"d", "a"} /\ (i = 1 \/ cls[i - 1] # cls[i])}
TokenEnd(cls, i) ==
  CHOOSE j \in i..Len(cls) :
     /\ \A m \in i..j : cls[m] = cls[i]
     /\ (j = Len(cls) \/ cls[j + 1] # cls[i])
RECURSIVE TokensFrom(_, _, _)
TokenAt(t, cls, starts, i) == <<SubSeq(t, i, TokenEnd(cls, i))>> \o TokensFrom(t, cls, starts \ {i})
TokensFrom(t, cls, starts) ==
  IF starts = {} THEN <<>> ELSE TokenAt(t, cls, starts, FirstOf(starts))
TokensOf(t, cls) == TokensFrom(t, cls, TokenStarts(cls))
Tokens(t) == TokensOf(t, Classes(t))

MakeDate(y, m, d) == y * 10000 + m * 100 + d
ValidYmd(y, m, d) == y \in 1000..9999 /\ m \in 1..12 /\ d \in 1..31
YearOf(d) == d \div 10000

\* dateutil's resolve_ymd for three numbers
ResolveNumeric(a, b, c, yearFirst, dayfirst) ==
  IF a > 31 \/ yearFirst
  THEN (IF dayfirst /\ c <= 12 THEN <<a, c, b>> ELSE <<a, b, c>>)
  ELSE IF a > 12 \/ (dayfirst /\ b <= 12) THEN <<c, b, a>>
  ELSE <<c, a, b>>

\* dateutil.parser.parse(text, dayfirst=...); None for a ParserError
\* n the tokens read as numbers (-1: not a number), m as month names (0: not one),
\* yearFirst whether the first token has more than two digits
ResolveYmd(n, m, yearFirst, dayfirst, today) ==
  IF Len(n) = 3 /\ n[1] >= 0 /\ n[2] >= 0 /\ n[3] >= 0
  THEN ResolveNumeric(n[1], n[2], n[3], yearFirst, dayfirst)
  ELSE IF Len(n) = 3 /\ n[1] >= 0 /\ m[2] > 0 /\ n[3] >= 0 THEN <<n[3], m[2], n[1]>>
  ELSE IF Len(n) = 2 /\ n[1] >= 0 /\ m[2] > 0 THEN <<YearOf(today), m[2], n[1]>>
  ELSE <<0, 0, 0>>
DateOf(ymd) == IF ValidYmd(ymd[1], ymd[2], ymd[3]) THEN DateTime(MakeDate(ymd[1], ymd[2], ymd[3])) ELSE None
ParseTokens(toks, dayfirst, today) ==
  DateOf(ResolveYmd([i \in 1..Len(toks) |-> IF AllDigits(toks[i]) THEN NatVal(toks[i]) ELSE -1],
                    [i \in 1..Len(toks) |-> IndexOf(Lower(toks[i]), MonthNames)],
                    toks # <<>> /\ Len(toks[1]) > 2, dayfirst, today))
DateutilParse(text, dayfirst, today) ==
  IF \E i \in 1..Len(text) : CharClass(text[i]) = "x" THEN None
  ELSE ParseTokens(Tokens(text), dayfirst, today)

DateMinLen == 6
TryParseText(s, today) ==
  IF s = <<>> \/ Len(s) < DateMinLen THEN None
  ELSE IF IsAlias(Lower(Strip(s))) THEN None
  ELSE DateutilParse(s, TRUE, today)
TryParseDate(value, today) ==
  IF value.k = "none" THEN None
  ELSE IF value.k = "dt" THEN value
  ELSE TryParseText(Strip(Str(value)), today)

(***************************************************************************)
(* validation.py                                                           *)
(***************************************************************************)
CurrencyCodes == {"INR", "USD", "EUR", "GBP", "JPY", "AED", "SGD", "AUD", "CAD", "CNY"}
CodeText(code) ==
  CASE code = "INR" -> <<"I","N","R">> [] code = "USD" -> <<"U","S","D">> [] code = "EUR" -> <<"E","U","R">>
    [] code = "GBP" -> <<"G","B","P">> [] code = "JPY" -> <<"J","P","Y">> [] code = "AED" -> <<"A","E","D">>
    [] code = "SGD" -> <<"S","G","D">> [] code = "AUD" -> <<"A","U","D">> [] code = "CAD" -> <<"C","A","D">>
    [] OTHER -> <<"C","N","Y">>
\* CURRENCY_PROFILES; round_unit and min_round in hundredths
DEFAULT_PROFILE == [round_unit |-> 10000, min_round |-> 10000, outlier_factor |-> 50]
CURRENCY_PROFILES ==
  [code \in CurrencyCodes |->
     CASE code \in {"INR", "CNY"} -> [round_unit |-> 10000, min_round |-> 10000, outlier_factor |-> 50]
       [] code = "JPY" -> [round_unit |-> 100000, min_round |-> 100000, outlier_factor |-> 100]
       [] OTHER -> [round_unit |-> 10000, min_round |-> 5000, outlier_factor |-> 50]]
GetCurrencyProfile(currency) ==
  IF currency \in CurrencyCodes THEN CURRENCY_PROFILES[currency] ELSE DEFAULT_PROFILE

SymbolMap ==
  <<[sym |-> <<"<rupee>">>, code |-> "INR"],
     [sym |-> <<"R","s">>, code |-> "INR"],
     [sym |-> <<"I","N","R">>, code |-> "INR"],
     [sym |-> <<"$">>, code |-> "USD"],
     [sym |-> <<"U","S","D">>, code |-> "USD"],
     [sym |-> <<"<euro>">>, code |-> "EUR"],
     [sym |-> <<"E","U","R">>, code |-> "EUR"],
     [sym |-> <<"<pound>">>, code |-> "GBP"],
     [sym |-> <<"G","B","P">>, code |-> "GBP"],
     [sym |-> <<"<yen>">>, code |-> "JPY"],
     [sym |-> <<"J","P","Y">>, code |-> "JPY"],
     [sym |-> <<"A","E","D">>, code |-> "AED"],
     [sym |-> <<"S","G","D">>, code |-> "SGD"],
     [sym |-> <<"A","$">>, code |-> "AUD"],
     [sym |-> <<"A","U","D">>, code |-> "AUD"],
     [sym |-> <<"C","$">>, code |-> "CAD"],
     [sym |-> <<"C","A","D">>, code |-> "CAD"],
     [sym |-> <<"C","N","<yen>">>, code |-> "CNY"],
     [sym |-> <<"C","N","Y">>, code |-> "CNY"]>>

\* extracted.get("transactions") or []
TxList(extracted) ==
  IF extracted.transactions.shape = "list" THEN extracted.transactions.items ELSE <<>>
\* a transactions value that is neither None nor a list of entries
TxNotList(extracted) == extracted.transactions.shape = "other"

\* the code an explicit currency field names, "" when it names none
CodeNamed(t) ==
  IF \E code \in CurrencyCodes : CodeText(code) = t
  THEN CHOOSE code \in CurrencyCodes : CodeText(code) = t ELSE ""
ExplicitCurrency(extracted) ==
  IF Truthy(extracted.currency) THEN CodeNamed(Strip(Upper(Str(extracted.currency)))) ELSE ""

CurrencySample == 30
HeaderVoteWeight == 5
\* str(tx.get("description") or "") of the sampled rows
DescriptionTexts(txs) == [i \in 1..Min(Len(txs), CurrencySample) |-> StrOrEmpty(txs[i].description)]
\* the header fields, in the order the code reads them
HeaderTexts(extracted) ==
  [i \in 1..3 |-> StrOrEmpty(<<extracted.opening_balance_raw, extracted.closing_balance_raw, extracted.bank_name>>[i])]
\* the pairs <<i, j>> where entry j of the symbol map occurs in text i
SymbolHits(texts) ==
  {h \in (1..Len(texts)) \X (1..Len(SymbolMap)) : Contains(SymbolMap[h[2]].sym, texts[h[1]])}
HitsOf(hits, code) == {h \in hits : SymbolMap[h[2]].code = code}
\* votes[code]: one for a hit in a description, five for a hit in a header field
VoteCount(dhits, hhits, code) ==
  Cardinality(HitsOf(dhits, code)) + HeaderVoteWeight * Cardinality(HitsOf(hhits, code))
\* the place of the hit in reading order
HitOrder(hits) == FirstOf({h[1] * (Len(SymbolMap) + 1) + h[2] : h \in hits})
\* when the code entered the dict: descriptions are read before header fields
VoteOrder(dhits, hhits, code) ==
  IF HitsOf(dhits, code) # {} THEN HitOrder(HitsOf(dhits, code))
  ELSE (CurrencySample + 1) * (Len(SymbolMap) + 1) + HitOrder(HitsOf(hhits, code))
\* the dict votes, each key with the order it was inserted in
Votes(dhits, hhits) ==
  [code \in {SymbolMap[h[2]].code : h \in dhits \cup hhits} |->
     [n |-> VoteCount(dhits, hhits, code), at |-> VoteOrder(dhits, hhits, code)]]
CurrencyVotes(extracted) ==
  Votes(SymbolHits(DescriptionTexts(TxList(extracted))), SymbolHits(HeaderTexts(extracted)))
\* max(votes, key=...): the first key in insertion order that has the largest count
MaxVote(votes) ==
  CHOOSE c \in DOMAIN votes : \A d \in DOMAIN votes \ {c} :
     votes[d].n < votes[c].n \/ (votes[d].n = votes[c].n /\ votes[c].at < votes[d].at)
\* the magnitude heuristic and the default both return INR
VotedCurrency(votes) == IF DOMAIN votes # {} THEN MaxVote(votes) ELSE "INR"
CurrencyOr(explicit, voted) == IF explicit # "" THEN explicit ELSE voted
DetectCurrency(extracted) ==
  CurrencyOr(ExplicitCurrency(extracted), VotedCurrency(CurrencyVotes(extracted)))

\* _safe_number: float(value) inside a try
FloatOrNone(s) == IF IsFloat(s) THEN Num(FloatVal(s)) ELSE None
SafeNumber(value) ==
  CASE value.k = "num" -> value
    [] value.k = "str" -> FloatOrNone(Strip(value.s))
    [] OTHER -> None

\* _parse_date: dateutil with its default day order, None when empty or unparseable
ParseDate(value, today) ==
  IF ~Truthy(value) THEN None
  ELSE IF value.k = "str" THEN DateutilParse(Strip(value.s), FALSE, today)
  ELSE IF value.k = "dt" THEN value
  ELSE None

\* _compare_close
CompareClose(a, b, tolerance) ==
  IF a.k # "num" \/ b.k # "num" THEN FALSE ELSE Abs(a.v - b.v) <= tolerance

\* round(a / b, digits) for a, b >= 0 and scale = 10^digits, as a whole number of 1/scale
RoundRest(whole, rest, b) == whole + (rest \div b) + (IF 2 * (rest % b) >= b THEN 1 ELSE 0)
RoundRatio(a, b, scale) == RoundRest(scale * (a \div b), scale * (a % b), b)

(***************************************************************************)
(* run_validations, invoice                                                *)
(***************************************************************************)
InvoiceTolerance == 2
InvoiceTotalIssue(subtotal, tax, total) ==
  IF subtotal.k = "num" /\ tax.k = "num" /\ total.k = "num"
     /\ ~CompareClose(Num(subtotal.v + tax.v), total, InvoiceTolerance)
  THEN <<[field |-> "total", message |-> "Subtotal + tax does not match total.", severity |-> "critical",
          expected |-> subtotal.v + tax.v, actual |-> total.v]>>
  ELSE <<>>
InvoiceDueIssue(invoice_date, due_date) ==
  IF invoice_date.k = "dt" /\ due_date.k = "dt" /\ due_date.v < invoice_date.v
  THEN <<[field |-> "due_date", message |-> "Due date is earlier than invoice date.", severity |-> "critical"]>>
  ELSE <<>>
\* the comparison with now = datetime.now(): a date (midnight) is later than now
\* exactly when it is a later day than today
InvoiceFutureIssue(invoice_date, now) ==
  IF invoice_date.k = "dt" /\ invoice_date.v > now
  THEN <<[field |-> "invoice_date", message |-> "Invoice date is in the future.", severity |-> "info"]>>
  ELSE <<>>
InvoiceErrors(extracted, now) ==
  InvoiceTotalIssue(SafeNumber(extracted.subtotal), SafeNumber(extracted.tax), SafeNumber(extracted.total))
  \o InvoiceDueIssue(ParseDate(extracted.invoice_date, now), ParseDate(extracted.due_date, now))
InvoiceWarnings(extracted, now) == InvoiceFutureIssue(ParseDate(extracted.invoice_date, now), now)

(***************************************************************************)
(* run_validations, payslip                                                *)
(***************************************************************************)
BalanceTolerance == 5
PayslipNetIssue(gross, net) ==
  IF gross.k = "num" /\ net.k = "num" /\ net.v > gross.v
  THEN <<[field |-> "net_salary", message |-> "Net salary exceeds gross salary.", severity |-> "critical"]>>
  ELSE <<>>
PayslipGrossIssue(gross) ==
  IF gross.k = "num" /\ gross.v <= 0
  THEN <<[field |-> "gross_salary", message |-> "Gross salary must be positive.", severity |-> "critical"]>>
  ELSE <<>>
PayslipDeductionsIssue(gross, net, deductions) ==
  IF gross.k = "num" /\ net.k = "num" /\ deductions.k = "num"
     /\ ~CompareClose(Num(gross.v - deductions.v), net, BalanceTolerance)
  THEN <<[field |-> "deductions", message |-> "Gross minus deductions does not match net salary.",
          severity |-> "warning"]>>
  ELSE <<>>
PayslipIssues(gross, net, deductions) ==
  [errors |-> PayslipNetIssue(gross, net) \o PayslipGrossIssue(gross),
   warnings |-> PayslipDeductionsIssue(gross, net, deductions)]
PayslipResults(extracted) ==
  PayslipIssues(SafeNumber(extracted.gross_salary), SafeNumber(extracted.net_salary),
                SafeNumber(extracted.deductions))

(***************************************************************************)
(* run_validations, bank_statement                                         *)
(***************************************************************************)
RECURSIVE SumSeq(_)
SumSeq(q) == IF q = <<>> THEN 0 ELSE Head(q) + SumSeq(Tail(q))
\* the entries of q whose flag in keep is TRUE, in order
SelectSeqBy(q, keep) == Pick(q, {i \in 1..Len(q) : keep[i]})
\* the numbers among vals, in order
Numeric(vals) ==
  SelectSeqBy([i \in 1..Len(vals) |-> vals[i].v], [i \in 1..Len(vals) |-> vals[i].k = "num"])

\* an entry of the transaction list that is not a dict makes tx.get raise;
\* a transactions value that is no list raises where it is sliced or iterated
BankRaises(extracted) ==
  \/ TxNotList(extracted)
  \/ \E i \in 1..Len(TxList(extracted)) : TxList(extracted)[i].shape # "rec"

\* _safe_number(tx.get("amount")) of every row
TxAmountVals(txs) == [i \in 1..Len(txs) |-> SafeNumber(txs[i].amount)]
\* tx_amounts: the numeric amounts, in order
TxAmounts(txs) == Numeric(TxAmountVals(txs))
TxBalances(txs) == [i \in 1..Len(txs) |-> SafeNumber(txs[i].balance)]
TxDates(txs, now) == [i \in 1..Len(txs) |-> ParseDate(txs[i].date, now)]
TxDateRaw(txs) == [i \in 1..Len(txs) |-> StrOrEmpty(txs[i].date)]
TxDescriptions(txs) == [i \in 1..Len(txs) |-> StrOrEmpty(txs[i].description)]

\* the local variables of the bank_statement branch once its first loop is over
BankLocalsOf(extracted, transactions, now) ==
  [opening |-> SafeNumber(extracted.opening_balance),
   closing |-> SafeNumber(extracted.closing_balance),
   transactions |-> transactions,
   amounts |-> TxAmountVals(transactions),
   tx_amounts |-> TxAmounts(transactions),
   tx_balances |-> TxBalances(transactions),
   tx_dates |-> TxDates(transactions, now),
   tx_date_raw |-> TxDateRaw(transactions),
   tx_descriptions |-> TxDescriptions(transactions),
   detected_currency |-> DetectCurrency(extracted)]
BankLocals(extracted, now) == BankLocalsOf(extracted, TxList(extracted), now)

\* the most recent parsed date before entry i, None when there is none
LastDateBefore(dates, i) ==
  IF \E j \in 1..(i - 1) : dates[j].k = "dt"
  THEN dates[CHOOSE j \in 1..(i - 1) : dates[j].k = "dt" /\ \A m \in (j + 1)..(i - 1) : dates[m].k # "dt"]
  ELSE None
DateSequenceViolations(dates) ==
  Cardinality({i \in 1..Len(dates) :
     dates[i].k = "dt" /\ LastDateBefore(dates, i).k = "dt" /\ dates[i].v < LastDateBefore(dates, i).v})
DateSequenceCritical == 5
ContinuityCritical == 3

\* the block guarded by "opening is not None and closing is not None and transactions"
ContinuityGuard(b) == b.opening.k = "num" /\ b.closing.k = "num" /\ b.transactions # <<>>
ContinuityMismatch(b) ==
  ~CompareClose(Num(b.opening.v + SumSeq(b.tx_amounts)), b.closing, BalanceTolerance)
ContinuityIssue(b) ==
  [field |-> "closing_balance",
   message |-> "Opening balance plus transactions does not match closing balance.",
   severity |-> IF Len(b.transactions) < ContinuityCritical THEN "info" ELSE "critical",
   expected |-> b.opening.v + SumSeq(b.tx_amounts), actual |-> b.closing.v]
DateSequenceIssue(n) ==
  IF n > 0
  THEN <<[field |-> "date_sequence", message |-> "Transaction dates are not in chronological order.",
          severity |-> IF n >= DateSequenceCritical THEN "critical" ELSE "warning", count |-> n]>>
  ELSE <<>>

BankErrorsOfAnyLength(b) ==
  IF ContinuityGuard(b) /\ ContinuityMismatch(b) THEN <<ContinuityIssue(b)>> ELSE <<>>
BankErrorsHead(b) ==
  IF ContinuityGuard(b) /\ ContinuityMismatch(b) /\ Len(b.transactions) >= ContinuityCritical
  THEN <<ContinuityIssue(b)>> ELSE <<>>
BankWarningsHead(b) ==
  IF ContinuityGuard(b)
  THEN DateSequenceIssue(DateSequenceViolations(b.tx_dates))
       \o (IF ContinuityMismatch(b) /\ Len(b.transactions) < ContinuityCritical
           THEN <<ContinuityIssue(b)>> ELSE <<>>)
  ELSE <<>>

\* ---- the detectors of the "if transactions:" block, in source order ----
\* _parse_date(tx.get("date")) is what the first loop put into tx_dates
CountIssue(field, message, n) ==
  IF n > 0 THEN <<[field |-> field, message |-> message, severity |-> "warning", count |-> n]>> ELSE <<>>
InvalidDates(b) ==
  CountIssue("transactions", "Invalid or impossible transaction date detected.",
             Cardinality({i \in 1..Len(b.transactions) :
                            Truthy(b.transactions[i].date) /\ b.tx_dates[i].k # "dt"}))

\* the nearest earlier numeric row balance, None when there is none
PrevRowBalance(balances, i) == IF i > 1 THEN balances[i - 1] ELSE None
\* prev_balance when the loop reaches row i: the balance of the nearest earlier row that has one
PrevBalance(balances, i) ==
  IF \E j \in 1..(i - 1) : balances[j].k = "num"
  THEN balances[CHOOSE j \in 1..(i - 1) : balances[j].k = "num" /\ \A m \in (j + 1)..(i - 1) : balances[m].k # "num"]
  ELSE None
RunningMismatches(balances, amounts) ==
  Cardinality({i \in 1..Len(balances) :
     /\ PrevBalance(balances, i).k = "num" /\ amounts[i].k = "num" /\ balances[i].k = "num"
     /\ ~CompareClose(Num(PrevBalance(balances, i).v + amounts[i].v), balances[i], BalanceTolerance)})
RunningBalance(b) ==
  CountIssue("balance", "Running balance does not reconcile for some rows.",
             RunningMismatches(b.tx_balances, b.amounts))

LastRowBalance(balances) == IF balances = <<>> THEN None ELSE balances[Len(balances)]
\* next((b for b in reversed(tx_balances) if b is not None), None)
LastBalance(balances) == PrevBalance(balances, Len(balances) + 1)
ClosingVsLast(closing, last_balance) ==
  IF closing.k = "num" /\ last_balance.k = "num" /\ ~CompareClose(last_balance, closing, BalanceTolerance)
  THEN <<[field |-> "closing_balance",
          message |-> "Closing balance does not match last row balance (summary injection).",
          severity |-> "critical", expected |-> last_balance.v, actual |-> closing.v]>>
  ELSE <<>>
ClosingVsLastRow(b) == ClosingVsLast(b.closing, LastBalance(b.tx_balances))

\* sorted(values)[idx], idx counted from 0
SortedAt(values, idx) ==
  CHOOSE x \in Range(values) :
    /\ Cardinality({i \in 1..Len(values) : values[i] < x}) <= idx
    /\ Cardinality({i \in 1..Len(values) : values[i] <= x}) > idx
\* sorted(numeric_balances)[len(numeric_balances) // 2]
MedianBalance(numeric_balances) == SortedAt(numeric_balances, Len(numeric_balances) \div 2)
MagnitudeIssue(closing, median_balance, outlier_factor) ==
  IF median_balance # 0 /\ Abs(closing.v) > Abs(median_balance) * outlier_factor
  THEN <<[field |-> "closing_balance",
          message |-> "Closing balance magnitude is far outside the transaction balance range.",
          severity |-> "critical", median_balance |-> median_balance, closing_balance |-> closing.v]>>
  ELSE <<>>
MagnitudeOf(closing, numeric_balances, outlier_factor) ==
  IF closing.k = "num" /\ numeric_balances # <<>>
  THEN MagnitudeIssue(closing, MedianBalance(numeric_balances), outlier_factor) ELSE <<>>
ClosingMagnitude(b) ==
  MagnitudeOf(b.closing, Numeric(b.tx_balances), GetCurrencyProfile(b.detected_currency).outlier_factor)

\* _leading_digit: int(str(int(abs(value)))[0]), 0 standing for None
FirstDigit(whole) == IF whole < 1 THEN 0 ELSE DigitVal(NatStr(whole)[1])
LeadingDigit(amount) == FirstDigit(Abs(amount) \div 100)
BenfordMinCount == 20
\* leading_one_ratio <= 0.25
BenfordLowOrEqual(ones, total) == 4 * ones <= total
\* leading_one_ratio < 0.25
BenfordLow(ones, total) == 4 * ones < total
BenfordIssue(ones, total) ==
  IF total >= BenfordMinCount /\ BenfordLow(ones, total)
  THEN <<[field |-> "benford", message |-> "Benford distribution deviates (leading digit '1' under 25%).",
          severity |-> "warning", ratio |-> RoundRatio(ones, total, 1000)]>>
  ELSE <<>>
\* digits the leading digits of tx_amounts
BenfordOf(digits) ==
  BenfordIssue(Cardinality({i \in 1..Len(digits) : digits[i] = 1}),
               Cardinality({i \in 1..Len(digits) : digits[i] \in 1..9}))
Benford(b) == BenfordOf([i \in 1..Len(b.tx_amounts) |-> LeadingDigit(b.tx_amounts[i])])

\* round_ratio >= 0.30
RoundRatioAtLeast(round, total) == 10 * round >= 3 * total
\* round_ratio > 0.30
RoundRatioHigh(round, total) == 10 * round > 3 * total
RoundIssue(round_count, total_count, currency, round_unit) ==
  IF total_count > 0 /\ RoundRatioHigh(round_count, total_count)
  THEN <<[field |-> "round_numbers", message |-> "High frequency of round-number transactions.",
          severity |-> "warning", ratio |-> RoundRatio(round_count, total_count, 1000),
          round_count |-> round_count, total_count |-> total_count,
          currency |-> currency, round_unit |-> round_unit]>>
  ELSE <<>>
RoundCount(real_amounts, profile) ==
  Cardinality({i \in 1..Len(real_amounts) :
                 /\ Abs(real_amounts[i]) >= profile.min_round
                 /\ Abs(real_amounts[i]) % profile.round_unit = 0})
RoundNumbersOf(real_amounts, currency, profile) ==
  RoundIssue(RoundCount(real_amounts, profile), Len(real_amounts), currency, profile.round_unit)
RoundNumbers(b) ==
  RoundNumbersOf(SelectSeqBy(b.tx_amounts, [i \in 1..Len(b.tx_amounts) |-> b.tx_amounts[i] # 0]),
                 b.detected_currency, GetCurrencyProfile(b.detected_currency))

\* sorted_vals[f] + (sorted_vals[c] - sorted_vals[f]) * (k - f), as 100 times its
\* value; kk is 100 * k
Interpolate(lo, hi, kk, f) == 100 * lo + (hi - lo) * (kk - 100 * f)
PercentileAt(values, kk, f) ==
  Interpolate(SortedAt(values, f), SortedAt(values, Min(f + 1, Len(values) - 1)), kk, f)
\* _percentile of a list that is not empty, as 100 times its value
Percentile100(values, pct) ==
  IF pct <= 0 THEN 100 * SortedAt(values, 0)
  ELSE IF pct >= 100 THEN 100 * SortedAt(values, Len(values) - 1)
  ELSE PercentileAt(values, (Len(values) - 1) * pct, ((Len(values) - 1) * pct) \div 100)

StructuringPct == 90
StructuringMinHits == 3
\* high_threshold - band <= amt with band = high_threshold * 0.01, h100 = 100 * high_threshold:
\* amt * 10000 >= 99 * h100, computed without leaving the machine integers
AboveRest(rest, h100) ==
  IF rest < 0 THEN FALSE ELSE IF rest >= 99 THEN TRUE ELSE rest * 10000 >= 99 * (h100 % 10000)
AboveBand(amt, h100) == AboveRest(amt - 99 * (h100 \div 10000), h100)
StructuringIssue(count) ==
  IF count >= StructuringMinHits
  THEN <<[field |-> "structuring",
          message |-> "Potential structuring detected (cluster near high-percentile deposit).",
          severity |-> "warning", count |-> count]>>
  ELSE <<>>
StructuringHits(positive_amounts, h100) ==
  Cardinality({i \in 1..Len(positive_amounts) :
                 AboveBand(positive_amounts[i], h100) /\ positive_amounts[i] * 100 <= h100})
StructuringOf(positive_amounts) ==
  IF positive_amounts = <<>> THEN <<>>
  ELSE StructuringIssue(StructuringHits(positive_amounts, Percentile100(positive_amounts, StructuringPct)))
Structuring(b) ==
  StructuringOf(SelectSeqBy(b.tx_amounts, [i \in 1..Len(b.tx_amounts) |-> b.tx_amounts[i] > 0]))

\* a run of spaces becomes one space
CollapseSpaces(t) == Pick(t, {i \in 1..Len(t) : ~(t[i] = " " /\ i < Len(t) /\ t[i + 1] = " ")})
\* _normalize_counterparty: what is not a letter becomes a space, runs of spaces collapse
NormalizeCounterparty(text) ==
  Strip(CollapseSpaces([i \in 1..Len(text) |-> IF IsAlpha(text[i]) THEN LowerChar(text[i]) ELSE " "]))

VelocityPct == 30
VelocityMinCount == 3
\* zip(tx_dates, normalized, tx_amounts): entry i pairs the date and the description
\* of transaction i with the i-th numeric amount, and stops at the shortest list
VelocityRows(dates, names, amounts) ==
  {i \in 1..Min(Len(dates), Len(amounts)) : dates[i].k = "dt" /\ names[i] # <<>>}
VelocityKey(dates, names, i) == [day |-> dates[i].v, name |-> names[i]]
VelocityKeyHit(group, amounts, small100) ==
  /\ Cardinality(group) >= VelocityMinCount
  /\ Cardinality({i \in group : Abs(amounts[i]) * 100 <= small100}) >= VelocityMinCount
VelocityHitsIn(dates, names, amounts, rows, small100) ==
  {key \in {VelocityKey(dates, names, i) : i \in rows} :
     VelocityKeyHit({i \in rows : VelocityKey(dates, names, i) = key}, amounts, small100)}
\* _percentile([abs(a) for a in tx_amounts], 30) or 0, as 100 times its value
SmallThreshold100(amounts) ==
  IF amounts = <<>> THEN 0 ELSE Percentile100([i \in 1..Len(amounts) |-> Abs(amounts[i])], VelocityPct)
VelocityHits(dates, names, amounts) ==
  VelocityHitsIn(dates, names, amounts, VelocityRows(dates, names, amounts), SmallThreshold100(amounts))
VelocityIssue(hits) ==
  IF hits # {}
  THEN <<[field |-> "velocity",
          message |-> "High-frequency same-day counterparty payments detected (velocity anomaly).",
          severity |-> "warning", examples |-> hits]>>
  ELSE <<>>
Velocity(b) ==
  VelocityIssue(VelocityHits(b.tx_dates,
                             [i \in 1..Len(b.tx_descriptions) |-> NormalizeCounterparty(b.tx_descriptions[i])],
                             b.tx_amounts))

GhostIssue(total_in, total_out) ==
  IF total_in > 0 /\ total_out = 0
  THEN <<[field |-> "cashflow", message |-> "Income present with zero expenses (ghost lifestyle pattern).",
          severity |-> "warning"]>>
  ELSE <<>>
GhostLifestyle(b) ==
  GhostIssue(SumSeq([i \in 1..Len(b.tx_amounts) |-> IF b.tx_amounts[i] > 0 THEN b.tx_amounts[i] ELSE 0]),
             SumSeq([i \in 1..Len(b.tx_amounts) |-> IF b.tx_amounts[i] < 0 THEN -b.tx_amounts[i] ELSE 0]))
\* negative_ratio > 0.5
NegativeIssue(negative, total) ==
  IF total > 0 /\ 2 * negative > total
  THEN <<[field |-> "cashflow", message |-> "Sustained negative balances detected.",
          severity |-> "warning", ratio |-> RoundRatio(negative, total, 1000)]>>
  ELSE <<>>
NegativeOf(numeric_balances) ==
  NegativeIssue(Cardinality({i \in 1..Len(numeric_balances) : numeric_balances[i] < 0}),
                Len(numeric_balances))
NegativeBalances(b) == NegativeOf(Numeric(b.tx_balances))

\* re.search([A-Za-z]{3})
SearchThreeLetters(t) == \E i \in 1..(Len(t) - 2) : \A j \in i..(i + 2) : IsAlpha(t[j])
\* re.search(\d{1,2}[/-]\d{1,2}[/-]\d{2,4})
SearchNumericDate(t) ==
  \E i \in 1..Len(t) : \E a \in 1..2 : \E b \in 1..2 :
     /\ i + a + b + 3 <= Len(t)
     /\ \A j \in (i..(i + a - 1)) \cup ((i + a + 1)..(i + a + b)) \cup ((i + a + b + 2)..(i + a + b + 3)) :
          IsDigit(t[j])
     /\ \A j \in {i + a, i + a + b + 1} : t[j] \in {"/", "-"}
\* re.search(\d{4}-\d{2})
SearchIsoDate(t) ==
  \E i \in 1..(Len(t) - 6) :
     /\ \A j \in (i..(i + 3)) \cup ((i + 5)..(i + 6)) : IsDigit(t[j])
     /\ t[i + 4] = "-"

MixedDateFormat(b) ==
  IF /\ \E i \in 1..Len(b.tx_date_raw) : SearchThreeLetters(b.tx_date_raw[i])
     /\ \E i \in 1..Len(b.tx_date_raw) : SearchNumericDate(b.tx_date_raw[i])
  THEN <<[field |-> "transactions", message |-> "Mixed date formats detected (possible merge artifact).",
          severity |-> "info"]>>
  ELSE <<>>

SyntheticMinRows == 10
SyntheticMaxUnique == 2
\* repetition_ratio > 0.8 with repetition_ratio = 1 - unique_desc / len(tx_descriptions)
SyntheticIssues(unique_desc, n) ==
  (IF n > 0 /\ 5 * unique_desc < n
   THEN <<[field |-> "synthetic",
           message |-> "Unusually repetitive transaction descriptions detected (synthetic pattern).",
           severity |-> "warning", ratio |-> RoundRatio(n - unique_desc, n, 1000)]>>
   ELSE <<>>)
  \o
  (IF n > 0 /\ unique_desc <= SyntheticMaxUnique /\ n >= SyntheticMinRows
   THEN <<[field |-> "synthetic",
           message |-> "Very low description diversity detected (synthetic pattern).",
           severity |-> "warning", unique_descriptions |-> unique_desc]>>
   ELSE <<>>)
SyntheticOf(tx_descriptions) ==
  SyntheticIssues(Cardinality({Strip(Lower(tx_descriptions[i])) :
                                 i \in {j \in 1..Len(tx_descriptions) : tx_descriptions[j] # <<>>}}),
                  Len(tx_descriptions))
Synthetic(b) == SyntheticOf(b.tx_descriptions)

\* warnings, b being the locals of the bank_statement branch
BankWarningsOf(b) ==
  BankWarningsHead(b)
  \o (IF b.transactions # <<>>
      THEN InvalidDates(b) \o RunningBalance(b) \o ClosingVsLastRow(b) \o ClosingMagnitude(b)
           \o Benford(b) \o RoundNumbers(b) \o Structuring(b) \o Velocity(b)
           \o GhostLifestyle(b) \o NegativeBalances(b) \o MixedDateFormat(b) \o Synthetic(b)
      ELSE <<>>)

(***************************************************************************)
(* _find_previous_statement and the cross-document check.  db is the       *)
(* documents table in order of creation.                                   *)
(***************************************************************************)
\* the document types
DocInvoice == <<"i","n","v","o","i","c","e">>
DocBankStatement == <<"b","a","n","k","_","s","t","a","t","e","m","e","n","t">>
DocPayslip == <<"p","a","y","s","l","i","p">>
DocUnknown == <<"u","n","k","n","o","w","n">>
\* the lookup with the statements in ascending order of creation: the oldest one
FindOldestStatement(db, account_number) ==
  IF \E i \in 1..Len(db) : db[i].doc_type = DocBankStatement
                            /\ db[i].extracted_fields.account_number = account_number
  THEN CHOOSE i \in 1..Len(db) :
         /\ db[i].doc_type = DocBankStatement /\ db[i].extracted_fields.account_number = account_number
         /\ \A j \in 1..(i - 1) :
              ~(db[j].doc_type = DocBankStatement /\ db[j].extracted_fields.account_number = account_number)
  ELSE 0
\* the index of the latest statement of the account, 0 when there is none
FindPreviousStatement(db, account_number) ==
  IF \E i \in 1..Len(db) : db[i].doc_type = DocBankStatement
                            /\ db[i].extracted_fields.account_number = account_number
  THEN CHOOSE i \in 1..Len(db) :
         /\ db[i].doc_type = DocBankStatement /\ db[i].extracted_fields.account_number = account_number
         /\ \A j \in (i + 1)..Len(db) :
              ~(db[j].doc_type = DocBankStatement /\ db[j].extracted_fields.account_number = account_number)
  ELSE 0
ConsistencyIssue(prev_closing, opening) ==
  IF prev_closing.k = "num" /\ opening.k = "num" /\ ~CompareClose(prev_closing, opening, BalanceTolerance)
  THEN <<[field |-> "opening_balance", message |-> "Opening balance does not match previous closing balance.",
          severity |-> "critical", previous_closing |-> prev_closing.v, current_opening |-> opening.v]>>
  ELSE <<>>
ConsistencyWith(db, previous, opening) ==
  IF previous = 0 THEN <<>>
  ELSE ConsistencyIssue(SafeNumber(db[previous].extracted_fields.closing_balance), opening)
ConsistencyIssues(extracted, db) ==
  IF Truthy(extracted.account_number)
  THEN ConsistencyWith(db, FindPreviousStatement(db, extracted.account_number),
                       SafeNumber(extracted.opening_balance))
  ELSE <<>>

(***************************************************************************)
(* run_validations(doc_type, extracted, session), called when the clock    *)
(* shows now.  The outcome is "returned" with the three results, or        *)
(* "raised" when an exception leaves the function.                         *)
(***************************************************************************)
Consistent == [consistent |-> TRUE, issues |-> <<>>]
ValidationRaised == [outcome |-> "raised", errors |-> <<>>, warnings |-> <<>>, consistency |-> Consistent]
Returned(errors, warnings, issues) ==
  [outcome |-> "returned", errors |-> errors, warnings |-> warnings,
   consistency |-> [consistent |-> issues = <<>>, issues |-> issues]]
BankResults(b, issues) == Returned(BankErrorsHead(b), BankWarningsOf(b), issues)
PayslipReturned(p) == Returned(p.errors, p.warnings, <<>>)
\* the branches of run_validations, dt being the lower-case doc_type
RunValidationsAs(dt, extracted, db, now) ==
  CASE dt = DocInvoice -> Returned(InvoiceErrors(extracted, now), InvoiceWarnings(extracted, now), <<>>)
    [] dt = DocBankStatement ->
         IF BankRaises(extracted) THEN ValidationRaised
         ELSE BankResults(BankLocals(extracted, now), ConsistencyIssues(extracted, db))
    [] dt = DocPayslip -> PayslipReturned(PayslipResults(extracted))
    [] OTHER -> Returned(<<>>, <<>>, <<>>)
\* doc_type = (doc_type or "unknown").lower()
RunValidations(doc_type, extracted, db, now) ==
  RunValidationsAs(Lower(IF Truthy(doc_type) THEN doc_type.s ELSE DocUnknown), extracted, db, now)

(***************************************************************************)
(* normalize_excel_statement: the state of one call.                       *)
(***************************************************************************)
VARIABLES
  content,      \* the uploaded bytes: undecodable, a workbook without sheet, or a sheet
  today,        \* the current date of the system clock
  pc,           \* where the caller stands
  call,         \* 1 for the first call on the content, 2 for the repeated one
  first,        \* what the first call returned, once a second one is made
  result,       \* the NormalizedStatement under construction
  loc,          \* the local variables of normalize_excel_statement
  doc_type,     \* run_validations: the document type
  extracted,    \* run_validations: the extracted-fields record
  db,           \* the stored documents, in order of creation
  validation,   \* what run_validations returned
  again,        \* what a second call of run_validations with the same inputs returned
  detected,     \* _detect_currency: the code it returned and the profile that code selects
  batch         \* one request of ingest_documents and the re-analysis of a stored document

vars == <<content, today, pc, call, first, result, loc, doc_type, extracted, db, validation, again, detected, batch>>
NoDiscrepancy == [present |-> FALSE]
EmptyStatement ==
  [opening_balance |-> None, closing_balance |-> None, transactions |-> <<>>,
   repair_log |-> <<>>, detected_anomalies |-> <<>>, metadata_discrepancy |-> NoDiscrepancy]
NoFormats == [datetime_obj |-> 0, alpha |-> 0, iso |-> 0, numeric |-> 0]
EmptyLocals ==
  [summary_opening |-> None, summary_closing |-> None, header_row |-> 0, col_map |-> NoMapping,
   row_idx |-> 0, empty_streak |-> 0, closing_from_row |-> None, date_formats_seen |-> NoFormats,
   garbage_count |-> 0, header_rows_skipped |-> 0]
NoValidation == [outcome |-> "none"]
NoCurrency == [code |-> "", profile |-> DEFAULT_PROFILE]
NoBatch ==
  [files |-> <<>>, at |-> 0, results |-> <<>>, outcome |-> "none", doc |-> 0, before |-> <<>>,
   previous |-> 0, fraud |-> FALSE, runs |-> 0]
NoFirst == [present |-> FALSE]

Log(msg, row) == [msg |-> msg, row |-> row]

\* ---- steps 1 to 3: summary scan, header detection, explicit opening row ----
\* header_row and col_map after the fallback, h being what _detect_header_row gave
HeaderRowOf(h) == IF h.row < 0 THEN 1 ELSE h.row
ColMapOf(h) == IF h.row < 0 THEN DefaultMapping ELSE h.map

OpeningScanRows == 4
\* a cell of row r, among the first nine columns, holds the label
OpeningLabelled(ws, r) ==
  \E c \in 1..Min(MaxColumn(ws), SummaryMaxCol) :
     Truthy(Cell(ws, r, c))
     /\ Contains(<<"O","P","E","N","I","N","G"," ","B","A","L","A","N","C","E">>, Upper(Str(Cell(ws, r, c))))
RECURSIVE OpeningFromRows(_, _, _, _, _)
\* v is the balance-column value of the labelled row r: a number ends the search
OpeningAt(ws, bal_col, r, last, rows, v) ==
  IF v.k = "none" THEN OpeningFromRows(ws, bal_col, r + 1, last, Append(rows, r))
  ELSE [value |-> v, rows |-> Append(rows, r)]
\* opening_from_row after the rows r..last, and the labelled rows that were logged;
\* the value is Raised when _safe_float raises on the way
OpeningFromRows(ws, bal_col, r, last, rows) ==
  IF r > last THEN [value |-> None, rows |-> rows]
  ELSE IF ~OpeningLabelled(ws, r) THEN OpeningFromRows(ws, bal_col, r + 1, last, rows)
  ELSE OpeningAt(ws, bal_col, r, last, rows, SafeFloat(Cell(ws, r, bal_col)))
\* the search confined to the row next to the header
OpeningFromNextRow(ws, header_row, col_map) ==
  OpeningFromRows(ws, ColOf(col_map, "balance"), header_row + 1,
                  Min(header_row + 1, MaxRow(ws)), <<>>)
\* range(header_row + 1, min(header_row + 5, ws.max_row + 1))
OpeningFromRow(ws, header_row, col_map) ==
  OpeningFromRows(ws, ColOf(col_map, "balance"), header_row + 1,
                  Min(header_row + OpeningScanRows, MaxRow(ws)), <<>>)

\* the repair log of steps 1 to 3: s the summary balances, h the header, o the opening row
OpenLog(s, h, o) ==
  <<Log("normalizing", 0), Log("sheet", 0)>>
  \o (IF s.opening.k = "num" THEN <<Log("summary_opening_balance", 0)>> ELSE <<>>)
  \o (IF s.closing.k = "num" THEN <<Log("summary_closing_balance", 0)>> ELSE <<>>)
  \o (IF h.row < 0 THEN <<Log("could not detect header row", 0)>> ELSE <<>>)
  \o <<Log("header_row", HeaderRowOf(h))>>
  \o [i \in 1..Len(o.rows) |-> Log("opening_from_transactions", o.rows[i])]

\* ---- step 4: one row of the scan ----
RowValues(ws, map, r) ==
  [date_val |-> Cell(ws, r, ColOf(map, "date")),
   desc_val |-> Cell(ws, r, ColOf(map, "description")),
   debit_val |-> Cell(ws, r, ColOf(map, "debit")),
   credit_val |-> Cell(ws, r, ColOf(map, "credit")),
   balance_val |-> Cell(ws, r, ColOf(map, "balance"))]
RowCells(row) == <<row.date_val, row.desc_val, row.debit_val, row.credit_val, row.balance_val>>
\* v is None or str(v).strip() == ""
IsBlank(v) == v.k = "none" \/ Strip(Str(v)) = <<>>
AllBlank(cells) == \A i \in 1..Len(cells) : IsBlank(cells[i])
RowIsEmpty(row) == AllBlank(RowCells(row))
AnyHeaderText(cells) == \E i \in 1..Len(cells) : IsHeaderText(cells[i])
RowHasHeaderText(row) == AnyHeaderText(RowCells(row))
ClosingLabel == <<"C","L","O","S","I","N","G"," ","B","A","L","A","N","C","E">>
SummaryLabels == {<<"O","P","E","N","I","N","G"," ","B","A","L","A","N","C","E">>, ClosingLabel, <<"T","R","A","N","S","A","C","T","I","O","N"," ","T","O","T","A","L">>, <<"T","O","T","A","L">>, <<>>}
\* desc_str
DescLabel(row) == Upper(Strip(StrOrEmpty(row.desc_val)))
RowIsSummary(row) == DescLabel(row) \in SummaryLabels
\* desc_text
DescText(row) == StrOrEmpty(row.desc_val)
RowIsGarbage(row) == IsGarbageText(DescText(row))
\* date_str
DateStr(row) == Strip(StrOrEmpty(row.date_val))

\* what the loop computes from a row that is no empty, header, summary or garbage
\* row: nums is _safe_float of the debit, credit and balance cells
ParsedOf(row, nums, parsed_date) ==
  [desc_text |-> DescText(row), date_str |-> DateStr(row), parsed_date |-> parsed_date,
   is_datetime |-> row.date_val.k = "dt",
   debit |-> nums[1], credit |-> nums[2], balance |-> nums[3]]
Parsed(row, now) ==
  ParsedOf(row, [i \in 1..3 |-> SafeFloat(<<row.debit_val, row.credit_val, row.balance_val>>[i])],
           TryParseDate(row.date_val, now))

RowRaises(p) == p.debit.k = "raise" \/ p.credit.k = "raise" \/ p.balance.k = "raise"
RowIsNonDate(p) ==
  /\ p.parsed_date.k # "dt"
  /\ p.date_str # <<>> /\ p.date_str # s_None
  /\ p.debit.k = "none" /\ p.credit.k = "none" /\ p.balance.k = "none"

\* the signed amount: a positive debit wins over a positive credit, a lone
\* amount that is not positive is taken as it stands
RowAmount(debit, credit) ==
  IF debit.k = "num" /\ debit.v > 0 THEN Num(-debit.v)
  ELSE IF credit.k = "num" THEN credit
  ELSE IF debit.k = "num" THEN Num(-debit.v)
  ELSE None
RowTxType(debit, credit) ==
  IF debit.k = "num" /\ debit.v > 0 THEN "debit"
  ELSE IF credit.k = "num" /\ credit.v > 0 THEN "credit"
  ELSE "unknown"
\* the loop without the phantom-row check
RowIsNeverPhantom(p) == FALSE
\* amount is None and balance is None
RowIsPhantom(p) == RowAmount(p.debit, p.credit).k = "none" /\ p.balance.k = "none"

\* the branch of the loop body the row takes
DataKind(p) ==
  IF RowRaises(p) THEN "raises"
  ELSE IF RowIsNonDate(p) THEN "non_date"
  ELSE IF RowIsPhantom(p) THEN "phantom"
  ELSE "transaction"
RowKind(row, now) ==
  IF RowIsEmpty(row) THEN "empty"
  ELSE IF RowHasHeaderText(row) THEN "header_text"
  ELSE IF RowIsSummary(row) THEN "summary"
  ELSE IF RowIsGarbage(row) THEN "garbage"
  ELSE DataKind(Parsed(row, now))

\* the key of date_formats_seen the row counts under, "" when it counts under none
DateFormatOf(p) ==
  IF p.parsed_date.k # "dt" THEN ""
  ELSE IF p.is_datetime THEN "datetime_obj"
  ELSE IF SearchThreeLetters(p.date_str) THEN "alpha"
  ELSE IF SearchIsoDate(p.date_str) THEN "iso"
  ELSE IF SearchNumericDate(p.date_str) THEN "numeric"
  ELSE ""
\* parsed_date.strftime("%Y-%m-%d"), else the raw text of the date cell
NormalizedDate(p) ==
  IF p.parsed_date.k = "dt" THEN Text(IsoStr(p.parsed_date.v))
  ELSE IF p.date_str # s_None THEN Text(p.date_str) ELSE None
MakeTransaction(p, r) ==
  [shape |-> "rec",
   date |-> NormalizedDate(p),
   description |-> Text(p.desc_text),
   amount |-> RowAmount(p.debit, p.credit),
   balance |-> p.balance,
   tx_type |-> RowTxType(p.debit, p.credit),
   row_index |-> r]
\* date_formats_seen after format f was seen
CountFormat(seen, f) == IF f = "" THEN seen ELSE [seen EXCEPT ![f] = @ + 1]

\* ---- steps 5 and 6: closing balance, metadata integrity, merge artifact ----
\* the balance of the last transaction that has one
LastTxBalance(txs) ==
  IF \E i \in 1..Len(txs) : txs[i].balance.k = "num"
  THEN txs[CHOOSE i \in 1..Len(txs) :
             txs[i].balance.k = "num" /\ \A j \in (i + 1)..Len(txs) : txs[j].balance.k # "num"].balance
  ELSE None

\* priority: CLOSING BALANCE row, then last transaction balance, then summary section
ResolveClosing(closing_from_row, last_balance, summary_closing) ==
  IF closing_from_row.k = "num" THEN closing_from_row
  ELSE IF last_balance.k = "num" THEN last_balance
  ELSE summary_closing
ClosingLog(closing_from_row, last_balance, summary_closing) ==
  IF closing_from_row.k = "num" THEN <<>>
  ELSE IF last_balance.k = "num" THEN <<Log("closing_inferred_from_last_row", 0)>>
  ELSE IF summary_closing.k = "num" THEN <<Log("closing_from_summary", 0)>>
  ELSE <<>>

DiscrepancyMin == 100
HeaderRatio == 5
InjectionRatio == 50
\* round(abs(a / b), 2) in hundredths
Ratio2(a, b) == RoundRatio(Abs(a), Abs(b), 100)
\* the same check with >= for the ratio
HeaderLiesFromFive(header_closing, calculated_closing) ==
  /\ header_closing.k = "num" /\ calculated_closing.k = "num"
  /\ Abs(header_closing.v - calculated_closing.v) > DiscrepancyMin
  /\ Abs(calculated_closing.v) > 0
  /\ Abs(header_closing.v) >= Abs(calculated_closing.v) * HeaderRatio
\* discrepancy > 1.0 and abs(calculated) > 0 and abs(header) > abs(calculated) * 5
HeaderLies(header_closing, calculated_closing) ==
  /\ header_closing.k = "num" /\ calculated_closing.k = "num"
  /\ Abs(header_closing.v - calculated_closing.v) > DiscrepancyMin
  /\ Abs(calculated_closing.v) > 0
  /\ Abs(header_closing.v) > Abs(calculated_closing.v) * HeaderRatio
\* the separate check of the resolved closing balance against the last row
ClosingInjected(closing, last) ==
  /\ closing.k = "num" /\ last.k = "num"
  /\ Abs(closing.v) > Abs(last.v) * InjectionRatio /\ Abs(last.v) > 0
\* which of the two checks records the discrepancy
MetadataCase(has_transactions, summary_closing, closing, last) ==
  IF ~has_transactions THEN "none"
  ELSE IF HeaderLies(summary_closing, last) THEN "header"
  ELSE IF ClosingInjected(closing, last) THEN "injected"
  ELSE "none"
Discrepancy(header, calculated) ==
  [present |-> TRUE, header_closing |-> header.v, calculated_closing |-> calculated.v,
   discrepancy |-> Abs(header.v - calculated.v), ratio |-> Ratio2(header.v, calculated.v)]
MetadataDiscrepancy(case, summary_closing, closing, last) ==
  IF case = "header" THEN Discrepancy(summary_closing, last)
  ELSE IF case = "injected" THEN Discrepancy(closing, last)
  ELSE NoDiscrepancy
\* the anomaly of the first check carries the four numbers, the one of the second does not
HeaderAnomaly(d) ==
  [type |-> "metadata_integrity_failure", severity |-> "critical", row |-> 0,
   header_closing |-> d.header_closing, calculated_closing |-> d.calculated_closing,
   discrepancy |-> d.discrepancy, ratio |-> d.ratio]
MetadataAnomaliesOfBoth(case, summary_closing, last) ==
  IF case = "header"
  THEN <<HeaderAnomaly(Discrepancy(summary_closing, last)),
         [type |-> "metadata_integrity_failure", severity |-> "critical", row |-> 0]>>
  ELSE IF case = "injected" THEN <<[type |-> "metadata_integrity_failure", severity |-> "critical", row |-> 0]>>
  ELSE <<>>
MetadataAnomalies(case, summary_closing, last) ==
  IF case = "header" THEN <<HeaderAnomaly(Discrepancy(summary_closing, last))>>
  ELSE IF case = "injected" THEN <<[type |-> "metadata_integrity_failure", severity |-> "critical", row |-> 0]>>
  ELSE <<>>
MetadataLog(case) ==
  IF case = "header" THEN <<Log("CRITICAL: metadata integrity failure", 0)>>
  ELSE IF case = "injected" THEN <<Log("CRITICAL: summary injection detected", 0)>>
  ELSE <<>>

MergeMinCount == 2
\* more than one date format seen at least twice
MergeArtifact(seen) == Cardinality({f \in DOMAIN seen : seen[f] >= MergeMinCount}) > 1
MergeAnomalies(merged) ==
  IF merged THEN <<[type |-> "merge_artifact", severity |-> "warning", row |-> 0]>> ELSE <<>>
\* the closing lines of the repair log
FinalLog(merged, garbage_count, header_rows_skipped, parsed) ==
  (IF merged THEN <<Log("merge_artifact", 0)>> ELSE <<>>)
  \o (IF garbage_count > 0 THEN <<Log("garbage_rows_skipped", garbage_count)>> ELSE <<>>)
  \o (IF header_rows_skipped > 0 THEN <<Log("header_rows_skipped", header_rows_skipped)>> ELSE <<>>)
  \o <<Log("parsed", parsed)>>

\* the statement the function returns: st what the loop left, l its locals, last the
\* last transaction balance, closing the resolved closing balance
Finished(st, l, last, closing, case, merged) ==
  [st EXCEPT
     !.closing_balance = closing,
     !.metadata_discrepancy = MetadataDiscrepancy(case, l.summary_closing, closing, last),
     !.detected_anomalies = @ \o MetadataAnomalies(case, l.summary_closing, last) \o MergeAnomalies(merged),
     !.repair_log = @ \o ClosingLog(l.closing_from_row, last, l.summary_closing) \o MetadataLog(case)
                      \o FinalLog(merged, l.garbage_count, l.header_rows_skipped, Len(st.transactions))]
FinishedWith(st, l, last, closing) ==
  Finished(st, l, last, closing,
           MetadataCase(st.transactions # <<>>, l.summary_closing, closing, last),
           MergeArtifact(l.date_formats_seen))
FinishedFrom(st, l, last) ==
  FinishedWith(st, l, last, ResolveClosing(l.closing_from_row, last, l.summary_closing))
FinishStatement(st, l) == FinishedFrom(st, l, LastTxBalance(st.transactions))

(***************************************************************************)
(* The calls.  pc: "idle" before normalize_excel_statement is called,      *)
(* "scan" inside its row loop, "final" once the loop has ended, "done"     *)
(* when it has returned, "raised" when an exception left it; "received"    *)
(* when extracted fields wait for run_validations, "validated" after it,   *)
(* "revalidated" after a second call with the same arguments.              *)
(***************************************************************************)
Ws == content.ws
CurrentRow == RowValues(Ws, loc.col_map, loc.row_idx)
InScan == pc = "scan" /\ loc.row_idx <= MaxRow(Ws)
NextRow == [loc EXCEPT !.row_idx = @ + 1, !.empty_streak = 0]

\* openpyxl.load_workbook raises: the function logs and returns the empty statement
OpenCorrupt ==
  /\ pc = "idle" /\ content.kind = "corrupt"
  /\ result' = [EmptyStatement EXCEPT !.repair_log = <<Log("normalizing", 0), Log("failed to open workbook", 0)>>]
  /\ pc' = "done"
  /\ UNCHANGED <<content, today, call, first, loc, doc_type, extracted, db, validation, again, detected, batch>>

\* wb.active is None
OpenNoSheet ==
  /\ pc = "idle" /\ content.kind = "nosheet"
  /\ result' = [EmptyStatement EXCEPT !.repair_log = <<Log("normalizing", 0), Log("no active sheet found", 0)>>]
  /\ pc' = "done"
  /\ UNCHANGED <<content, today, call, first, loc, doc_type, extracted, db, validation, again, detected, batch>>

\* the end of steps 1 to 3: s the summary balances, h the header, o the opening row
Opened(s, h, o) ==
  IF s.opening.k = "raise" \/ o.value.k = "raise"
  THEN /\ pc' = "raised"
       /\ result' = [EmptyStatement EXCEPT !.repair_log = <<Log("normalizing", 0), Log("sheet", 0)>>]
       /\ loc' = loc
  ELSE /\ pc' = "scan"
       /\ result' = [EmptyStatement EXCEPT
                       !.repair_log = OpenLog(s, h, o),
                       !.opening_balance = IF o.value.k = "num" THEN o.value ELSE s.opening]
       /\ loc' = [EmptyLocals EXCEPT
                    !.summary_opening = s.opening, !.summary_closing = s.closing,
                    !.header_row = HeaderRowOf(h), !.col_map = ColMapOf(h),
                    !.row_idx = HeaderRowOf(h) + 1]
OpenedAt(ws, s, h) == Opened(s, h, OpeningFromRow(ws, HeaderRowOf(h), ColMapOf(h)))
\* steps 1 to 3 on a decoded sheet
OpenSheet ==
  /\ pc = "idle" /\ content.kind = "sheet"
  /\ OpenedAt(Ws, ExtractSummaryBalances(Ws), DetectHeaderRow(Ws))
  /\ UNCHANGED <<content, today, call, first, doc_type, extracted, db, validation, again, detected, batch>>

EmptyStreakMax == 10
\* a fully empty row; the tenth in a row ends the scan
ScanEmptyRowAtTen ==
  /\ InScan /\ RowKind(CurrentRow, today) = "empty"
  /\ IF loc.empty_streak + 1 >= EmptyStreakMax
     THEN /\ pc' = "final"
          /\ loc' = [loc EXCEPT !.empty_streak = @ + 1]
     ELSE /\ pc' = pc
          /\ loc' = [loc EXCEPT !.empty_streak = @ + 1, !.row_idx = @ + 1]
  /\ UNCHANGED <<content, today, call, first, result, doc_type, extracted, db, validation, again, detected, batch>>

\* a fully empty row; more than 10 in a row end the scan
ScanEmptyRow ==
  /\ InScan /\ RowKind(CurrentRow, today) = "empty"
  /\ IF loc.empty_streak + 1 > EmptyStreakMax
     THEN /\ pc' = "final"
          /\ loc' = [loc EXCEPT !.empty_streak = @ + 1]
     ELSE /\ pc' = pc
          /\ loc' = [loc EXCEPT !.empty_streak = @ + 1, !.row_idx = @ + 1]
  /\ UNCHANGED <<content, today, call, first, result, doc_type, extracted, db, validation, again, detected, batch>>

\* a row with a cell that is a header alias
ScanHeaderTextRow ==
  /\ InScan /\ RowKind(CurrentRow, today) = "header_text"
  /\ result' = [result EXCEPT !.repair_log = Append(@, Log("skipped header-text row", loc.row_idx))]
  /\ loc' = [NextRow EXCEPT !.header_rows_skipped = @ + 1]
  /\ UNCHANGED <<content, today, pc, call, first, doc_type, extracted, db, validation, again, detected, batch>>

\* cb of a summary row: _safe_float of the balance cell under the CLOSING BALANCE label
ClosingCell(row) == IF DescLabel(row) = ClosingLabel THEN SafeFloat(row.balance_val) ELSE None
\* closing_from_row is set by the first CLOSING BALANCE row that has a number
SummarySkipped(cb) ==
  IF cb.k = "raise" THEN pc' = "raised" /\ loc' = loc /\ result' = result
  ELSE IF cb.k = "num" /\ loc.closing_from_row.k = "none"
  THEN /\ pc' = pc
       /\ loc' = [NextRow EXCEPT !.closing_from_row = cb]
       /\ result' = [result EXCEPT !.repair_log = Append(@, Log("closing_from_transactions", loc.row_idx))]
  ELSE pc' = pc /\ loc' = NextRow /\ result' = result
\* a summary or total row
ScanSummaryRow ==
  /\ InScan /\ RowKind(CurrentRow, today) = "summary"
  /\ SummarySkipped(ClosingCell(CurrentRow))
  /\ UNCHANGED <<content, today, call, first, doc_type, extracted, db, validation, again, detected, batch>>

\* a row whose description is OCR garbage
ScanGarbageRow ==
  /\ InScan /\ RowKind(CurrentRow, today) = "garbage"
  /\ result' = [result EXCEPT !.detected_anomalies =
                  Append(@, [type |-> "garbage_text", severity |-> "warning", row |-> loc.row_idx])]
  /\ loc' = [NextRow EXCEPT !.garbage_count = @ + 1]
  /\ UNCHANGED <<content, today, pc, call, first, doc_type, extracted, db, validation, again, detected, batch>>

\* _safe_float raises on the debit, credit or balance cell
ScanRowRaises ==
  /\ InScan /\ RowKind(CurrentRow, today) = "raises"
  /\ pc' = "raised"
  /\ UNCHANGED <<content, today, call, first, result, loc, doc_type, extracted, db, validation, again, detected, batch>>

\* text in the date cell that is no date, and no number in the row
ScanNonDateRow ==
  /\ InScan /\ RowKind(CurrentRow, today) = "non_date"
  /\ result' = [result EXCEPT !.repair_log = Append(@, Log("skipped non-date row", loc.row_idx))]
  /\ loc' = NextRow
  /\ UNCHANGED <<content, today, pc, call, first, doc_type, extracted, db, validation, again, detected, batch>>

\* no amount and no balance
ScanPhantomRow ==
  /\ InScan /\ RowKind(CurrentRow, today) = "phantom"
  /\ result' = [result EXCEPT !.repair_log = Append(@, Log("skipped phantom row", loc.row_idx))]
  /\ loc' = NextRow
  /\ UNCHANGED <<content, today, pc, call, first, doc_type, extracted, db, validation, again, detected, batch>>

\* p is what the loop computed from the row
Appended(p) ==
  /\ result' = [result EXCEPT !.transactions = Append(@, MakeTransaction(p, loc.row_idx))]
  /\ loc' = [NextRow EXCEPT !.date_formats_seen = CountFormat(@, DateFormatOf(p))]
\* the row becomes a transaction
ScanAppendRow ==
  /\ InScan /\ RowKind(CurrentRow, today) = "transaction"
  /\ Appended(Parsed(CurrentRow, today))
  /\ UNCHANGED <<content, today, pc, call, first, doc_type, extracted, db, validation, again, detected, batch>>

\* after the loop: closing balance, metadata integrity, merge artifact, final log
Finalize ==
  /\ pc = "final" \/ (pc = "scan" /\ loc.row_idx > MaxRow(Ws))
  /\ result' = FinishStatement(result, loc)
  /\ pc' = "done"
  /\ UNCHANGED <<content, today, call, first, loc, doc_type, extracted, db, validation, again, detected, batch>>

(***************************************************************************)
(* run_validations on the normalizer's output: the transactions and the    *)
(* balances go into the extracted fields the way ingest_documents merges   *)
(* them (ingestion.py, lines 223 to 236).  ingest_documents itself reads   *)
(* excel_result.currency next (line 243), a field NormalizedStatement does *)
(* not have; that step is no part of this composition.                     *)
(***************************************************************************)
EmptyFields ==
  [currency |-> None, opening_balance_raw |-> None, closing_balance_raw |-> None, bank_name |-> None,
   opening_balance |-> None, closing_balance |-> None,
   transactions |-> [shape |-> "none", items |-> <<>>], account_number |-> None,
   subtotal |-> None, tax |-> None, total |-> None, invoice_date |-> None, due_date |-> None,
   gross_salary |-> None, net_salary |-> None, deductions |-> None,
   metadata_discrepancy |-> NoDiscrepancy]
\* the merge of the normalizer's output into fields the extraction service left empty
MergeNormalized(fields, st) ==
  IF st.transactions = <<>> THEN fields
  ELSE [fields EXCEPT
          !.transactions = IF Len(st.transactions) > Len(TxList(fields))
                           THEN [shape |-> "list", items |-> st.transactions] ELSE @,
          !.opening_balance = IF st.opening_balance.k # "none" THEN st.opening_balance ELSE @,
          !.closing_balance = IF st.closing_balance.k # "none" THEN st.closing_balance ELSE @]

ValidateNormalized ==
  /\ pc = "done" /\ call = 1
  /\ doc_type' = Text(DocBankStatement)
  /\ extracted' = MergeNormalized(EmptyFields, result)
  /\ validation' = RunValidations(Text(DocBankStatement), MergeNormalized(EmptyFields, result), db, today)
  /\ pc' = "validated"
  /\ UNCHANGED <<content, today, call, first, result, loc, db, again, detected, batch>>

\* the same bytes are normalized once more
CallAgain ==
  /\ pc = "validated" /\ call = 1 /\ content.kind # "none"
  /\ first' = [present |-> TRUE, statement |-> result]
  /\ call' = 2
  /\ result' = EmptyStatement
  /\ loc' = EmptyLocals
  /\ pc' = "idle"
  /\ UNCHANGED <<content, today, doc_type, extracted, db, validation, again, detected, batch>>

\* run_validations on extracted fields that came from anywhere
Validate ==
  /\ pc = "received"
  /\ validation' = RunValidations(doc_type, extracted, db, today)
  /\ pc' = "validated"
  /\ UNCHANGED <<content, today, call, first, result, loc, doc_type, extracted, db, again, detected, batch>>

\* the same call once more
Revalidate ==
  /\ pc = "validated" /\ content.kind = "none"
  /\ again' = RunValidations(doc_type, extracted, db, today)
  /\ pc' = "revalidated"
  /\ UNCHANGED <<content, today, call, first, result, loc, doc_type, extracted, db, validation, detected, batch>>

\* time passes between two calls: the clock moves on by a year
StartDay == MakeDate(2024, 6, 15)
MaxTicks == 1
Tick ==
  /\ pc = "validated"
  /\ YearOf(today) < YearOf(StartDay) + MaxTicks
  /\ today' = today + 10000
  /\ UNCHANGED <<content, pc, call, first, result, loc, doc_type, extracted, db, validation, again, detected, batch>>

(***************************************************************************)
(* The inputs.  A statement sheet has five columns: date, narration,       *)
(* debit, credit, balance.  It may open with a summary section that        *)
(* declares the opening and closing balances.                              *)
(***************************************************************************)
HeaderRow == <<Text(<<"D","a","t","e">>), Text(<<"N","a","r","r","a","t","i","o","n">>), Text(<<"D","e","b","i","t">>), Text(<<"C","r","e","d","i","t">>), Text(<<"B","a","l","a","n","c","e">>)>>
SummaryOpeningRow == <<Text(<<"O","p","e","n","i","n","g"," ","B","a","l","a","n","c","e">>), Num(10000000)>>
SummaryClosingRow == <<Text(<<"C","l","o","s","i","n","g"," ","B","a","l","a","n","c","e">>), Text(<<"1",",","2","5","0",",","0","0","0">>)>>

CreditRow == <<DateTime(MakeDate(2024, 1, 5)), Text(<<"S","a","l","a","r","y"," ","A","C","M","E">>), None, Num(5000000), Num(15000000)>>
DebitRow == <<Text(<<"0","6","/","0","1","/","2","0","2","4">>), Text(<<"A","T","M"," ","C","A","S","H">>), Text(<<"2","5",",","0","0","0">>), None, Num(12500000)>>
ZeroRow == <<DateTime(MakeDate(2024, 1, 7)), Text(<<"I","n","t","e","r","e","s","t">>), None, Num(0), Num(12500000)>>
GarbageRow == <<DateTime(MakeDate(2024, 1, 8)), Text(<<"#","@","!","%","&","*">>), None, Num(100), Num(12500100)>>
KnownGarbageRow == <<DateTime(MakeDate(2024, 1, 8)), Text(<<"U","n","r","i","n","g","s"," "," ","I","C","E","A","S","E">>), Num(100), None, None>>
SpacedNoiseRow == <<DateTime(MakeDate(2024, 1, 9)), Text(<<"#"," ","#"," ","#"," ","#">>), None, Num(700), Num(12500800)>>
BlankRow == <<None, None, None, None, None>>
ClosingRow == <<None, Text(<<"C","L","O","S","I","N","G"," ","B","A","L","A","N","C","E">>), None, None, Num(99900)>>
TotalRow == <<None, Text(<<"T","o","t","a","l">>), Num(2500000), Num(5000000), None>>
RepeatedHeaderRow == HeaderRow
NonDateRow == <<Text(<<"p","e","n","d","i","n","g">>), Text(<<"N","o","t","e">>), None, None, None>>
PhantomRow == <<DateTime(MakeDate(2024, 1, 10)), Text(<<"M","e","m","o"," ","l","i","n","e">>), None, None, None>>
BadParenRow == <<DateTime(MakeDate(2024, 1, 11)), Text(<<"R","e","f","u","n","d">>), Text(<<"(","1",".","2",".","3",")">>), None, Num(100)>>
ContinuationRow == <<Text(<<"p","e","n","d","i","n","g">>), Text(<<"C","h","e","q","u","e">>), Num(30000), None, Num(12470000)>>
YearlessRow == <<Text(<<"1","5"," ","M","a","r">>), Text(<<"R","e","n","t">>), Text(<<"(","5","0","0",")">>), None, None>>

\* the rows a sheet is freely built from
DataRows ==
  {CreditRow, DebitRow, GarbageRow, SpacedNoiseRow, BlankRow, ClosingRow, NonDateRow, BadParenRow,
   YearlessRow}
\* the rows that appear in the fixed sheets only
SpecialRows ==
  {ZeroRow, KnownGarbageRow, TotalRow, RepeatedHeaderRow, PhantomRow, ContinuationRow}

MaxDataRows == 2
MaxTwiceRows == 1
RECURSIVE RowSeqs(_)
\* the sequences of at most n data rows
RowSeqs(n) ==
  IF n = 0 THEN {<<>>}
  ELSE RowSeqs(n - 1) \cup {Append(q, r) : q \in {x \in RowSeqs(n - 1) : Len(x) = n - 1}, r \in DataRows}

\* the sheet of the metadata-fraud scenario: the summary declares 1,250,000,
\* the rows end at 125,000
FraudSheet ==
  <<SummaryOpeningRow, SummaryClosingRow, HeaderRow, CreditRow, DebitRow, ZeroRow>>

\* more than ten empty rows in a row, and a transaction row after them
GapSheet == <<HeaderRow, DebitRow>> \o [i \in 1..(EmptyStreakMax + 1) |-> BlankRow] \o <<CreditRow>>

\* rows that look like a header without being one: no date column, nothing but a date column
NoDateHeaderRow == <<Text(<<"R","e","f">>), Text(<<"N","a","r","r","a","t","i","o","n">>), Text(<<"D","e","b","i","t">>), Text(<<"C","r","e","d","i","t">>), Text(<<"B","a","l","a","n","c","e">>)>>
DateOnlyRow == <<Text(<<"D","a","t","e">>), Text(<<"A","m","o","u","n","t">>)>>
\* sheets without a header row, with one past the rows that are searched, with
\* one on the last row searched, and with rows in front that do not qualify
HeaderSheets ==
  {<<CreditRow, DebitRow>>,
   <<SummaryClosingRow, CreditRow>>,
   [i \in 1..HeaderMaxScan |-> BlankRow] \o <<HeaderRow, CreditRow>>,
   [i \in 1..(HeaderMaxScan - 1) |-> BlankRow] \o <<HeaderRow, CreditRow>>,
   <<NoDateHeaderRow, HeaderRow, CreditRow>>,
   <<NoDateHeaderRow, CreditRow>>,
   <<DateOnlyRow, HeaderRow, DebitRow>>}

\* a transaction row below exactly n empty rows
GapOf(n) == <<HeaderRow, DebitRow>> \o [i \in 1..n |-> BlankRow] \o <<CreditRow>>
\* two runs of six empty rows with a transaction row between them
RestartSheet ==
  <<HeaderRow>> \o [i \in 1..6 |-> BlankRow] \o <<DebitRow>> \o [i \in 1..6 |-> BlankRow] \o <<CreditRow>>
GapSheets == {GapOf(EmptyStreakMax - 1), GapOf(EmptyStreakMax), GapOf(EmptyStreakMax + 2), RestartSheet}

\* rows whose balance is a fifth of the declared 1,250,000, a cent less, 0, and 0.10
FifthRow == <<DateTime(MakeDate(2024, 1, 12)), Text(<<"T","r","a","n","s","f","e","r">>), None, Num(5000000), Num(25000000)>>
UnderFifthRow == <<DateTime(MakeDate(2024, 1, 12)), Text(<<"T","r","a","n","s","f","e","r">>), None, Num(5000000), Num(24999999)>>
ZeroBalanceRow == <<DateTime(MakeDate(2024, 1, 12)), Text(<<"S","w","e","e","p">>), Num(5000000), None, Num(0)>>
DimeRow == <<DateTime(MakeDate(2024, 1, 12)), Text(<<"I","n","t","e","r","e","s","t">>), None, Num(10), Num(10)>>
\* summaries that declare 1.00 and -1,250,000
SmallClosingRow == <<Text(<<"C","l","o","s","i","n","g"," ","B","a","l","a","n","c","e">>), Num(100)>>
NegativeClosingRow == <<Text(<<"C","l","o","s","i","n","g"," ","B","a","l","a","n","c","e">>), Text(<<"(","1",",","2","5","0",",","0","0","0",")">>)>>
\* sheets on both sides of each condition of the metadata integrity check
IntegritySheets ==
  {<<SummaryClosingRow, HeaderRow, FifthRow>>,
   <<SummaryClosingRow, HeaderRow, UnderFifthRow>>,
   <<SummaryClosingRow, HeaderRow, ZeroBalanceRow>>,
   <<SummaryClosingRow, HeaderRow, CreditRow, PhantomRow>>,
   <<SmallClosingRow, HeaderRow, DimeRow>>,
   <<NegativeClosingRow, HeaderRow, CreditRow>>}

\* rows labelled OPENING BALANCE: with 500.00 in the balance column and 777.00
\* right of the label, with text in the balance column, with nothing
OpeningRow == <<None, Text(<<"O","p","e","n","i","n","g"," ","B","a","l","a","n","c","e">>), Num(77700), None, Num(50000)>>
OpeningTextRow == <<None, Text(<<"O","P","E","N","I","N","G"," ","B","A","L","A","N","C","E">>), None, None, Text(<<"n","/","a">>)>>
OpeningBareRow == <<None, Text(<<"O","P","E","N","I","N","G"," ","B","A","L","A","N","C","E">>), None, None, None>>
\* sheets with a labelled row below the header, up to five rows below it
OpeningSheets ==
  {<<SummaryOpeningRow, HeaderRow, OpeningRow, CreditRow>>,
   <<SummaryOpeningRow, HeaderRow, OpeningBareRow, CreditRow>>,
   <<SummaryOpeningRow, HeaderRow, OpeningTextRow, CreditRow>>,
   <<HeaderRow, OpeningBareRow, CreditRow>>,
   <<HeaderRow, OpeningBareRow, OpeningRow>>,
   <<HeaderRow, CreditRow, DebitRow, CreditRow, OpeningRow>>,
   <<HeaderRow, CreditRow, DebitRow, CreditRow, DebitRow, OpeningRow>>}

FixedSheets ==
  {FraudSheet, GapSheet} \cup HeaderSheets \cup GapSheets \cup IntegritySheets \cup OpeningSheets
  \cup {<<HeaderRow, s>> : s \in SpecialRows}
  \cup {<<HeaderRow, CreditRow, s>> : s \in SpecialRows}
  \cup {<<SummaryOpeningRow, SummaryClosingRow, HeaderRow, CreditRow, s>> : s \in SpecialRows}

\* the sheets with at most n freely chosen rows, and the fixed ones
Sheets(n) ==
  {<<HeaderRow>> \o q : q \in RowSeqs(n)}
  \cup {<<SummaryOpeningRow, SummaryClosingRow, HeaderRow>> \o q : q \in RowSeqs(n)}
  \cup FixedSheets

\* the file contents: bytes openpyxl rejects, a workbook with no active sheet, a sheet
Contents(n) ==
  {[kind |-> "corrupt", ws |-> <<>>], [kind |-> "nosheet", ws |-> <<>>]}
  \cup {[kind |-> "sheet", ws |-> ws] : ws \in Sheets(n)}
NoContent == [kind |-> "none", ws |-> <<>>]

Init ==
  /\ content \in Contents(MaxDataRows)
  /\ today = StartDay
  /\ pc = "idle"
  /\ call = 1
  /\ first = NoFirst
  /\ result = EmptyStatement
  /\ loc = EmptyLocals
  /\ doc_type = None
  /\ extracted = EmptyFields
  /\ db = <<>>
  /\ validation = NoValidation
  /\ again = NoValidation
  /\ detected = NoCurrency
  /\ batch = NoBatch

Normalize ==
  \/ OpenCorrupt \/ OpenNoSheet \/ OpenSheet
  \/ ScanEmptyRow \/ ScanHeaderTextRow \/ ScanSummaryRow \/ ScanGarbageRow \/ ScanRowRaises
  \/ ScanNonDateRow \/ ScanPhantomRow \/ ScanAppendRow
  \/ Finalize

Next == Normalize \/ ValidateNormalized
Spec == Init /\ [][Next]_vars

\* the same bytes normalized twice, the clock running on in between
InitTwice ==
  /\ content \in Contents(MaxTwiceRows)
  /\ today = StartDay
  /\ pc = "idle"
  /\ call = 1
  /\ first = NoFirst
  /\ result = EmptyStatement
  /\ loc = EmptyLocals
  /\ doc_type = None
  /\ extracted = EmptyFields
  /\ db = <<>>
  /\ validation = NoValidation
  /\ again = NoValidation
  /\ detected = NoCurrency
  /\ batch = NoBatch
NextTwice == Normalize \/ ValidateNormalized \/ Tick \/ CallAgain
SpecTwice == InitTwice /\ [][NextTwice]_vars

(***************************************************************************)
(* run_validations on extracted fields of any origin: the fields the       *)
(* extraction service may deliver, and the documents table it is checked   *)
(* against.                                                                *)
(***************************************************************************)
\* one entry of extracted["transactions"]
TxRec(date, description, amount, balance) ==
  [shape |-> "rec", date |-> date, description |-> description, amount |-> amount, balance |-> balance,
   tx_type |-> "", row_index |-> 0]
Deposit == TxRec(Text(<<"2","0","2","4","-","0","1","-","0","5">>), Text(<<"S","a","l","a","r","y"," ","A","C","M","E">>), Num(5000), Num(15000))
Withdrawal == TxRec(Text(<<"2","0","2","4","-","0","6","-","0","1">>), Text(<<"A","T","M"," ","C","A","S","H">>), Num(-2500), Num(12500))
TextAmount == TxRec(Text(<<"2","0","2","4","-","0","6","-","0","2">>), Text(<<"F","e","e">>), Text(<<"0",".","0","5">>), None)
NoAmount == TxRec(Text(<<"2","0","2","4","-","0","6","-","0","2">>), Text(<<"M","e","m","o">>), None, None)
YearlessDate == TxRec(Text(<<"1","5"," ","M","a","r">>), Text(<<"R","e","n","t">>), Num(0), None)
\* an entry that is a string, not a dict
NotARecord == [TxRec(None, Text(<<"o","o","p","s">>), None, None) EXCEPT !.shape = "str"]
TxChoices == {Deposit, Withdrawal, TextAmount, NoAmount, YearlessDate, NotARecord}

MaxTx == 2
RECURSIVE TxSeqs(_)
\* the transaction lists of at most n entries
TxSeqs(n) ==
  IF n = 0 THEN {<<>>}
  ELSE TxSeqs(n - 1) \cup {Append(q, t) : q \in {x \in TxSeqs(n - 1) : Len(x) = n - 1}, t \in TxChoices}
\* lists long enough for the continuity issue to be critical
LongTxLists ==
  {<<Deposit, Withdrawal, TextAmount>>, <<Deposit, Deposit, Withdrawal>>, <<YearlessDate, Withdrawal, Deposit>>}
\* the values of extracted["transactions"]: missing, a list, something else
TxValues(n) ==
  {[shape |-> "none", items |-> <<>>], [shape |-> "other", items |-> <<>>]}
  \cup {[shape |-> "list", items |-> q] : q \in TxSeqs(n) \cup LongTxLists}

BankFields(opening, closing, transactions, account_number) ==
  [EmptyFields EXCEPT !.opening_balance = opening, !.closing_balance = closing,
                      !.transactions = transactions, !.account_number = account_number]
OpeningValues == {None, Num(10000), Text(<<"1","0","0",".","0","0">>), Text(<<"n","/","a">>)}
ClosingValues == {None, Num(10000), Num(15000), Num(15005), Num(15006), Num(12500), Text(<<"n","/","a">>)}
AccountValues == {None, Text(<<>>), Text(<<"1","2","3">>)}
\* a stored document
Stored(dtype, account_number, closing) ==
  [doc_type |-> dtype, extracted_fields |-> [account_number |-> account_number, closing_balance |-> closing]]
\* the documents table: empty, or holding earlier documents in order of creation
Tables ==
  {<<>>,
   <<Stored(DocBankStatement, Text(<<"1","2","3">>), Num(10000))>>,
   <<Stored(DocBankStatement, Text(<<"1","2","3">>), Num(10005))>>,
   <<Stored(DocBankStatement, Text(<<"1","2","3">>), Text(<<"1","0","0",".","0","6">>))>>,
   <<Stored(DocBankStatement, Text(<<"1","2","3">>), None)>>,
   <<Stored(DocBankStatement, Text(<<"4","5","6">>), Num(99900))>>,
   <<Stored(DocInvoice, Text(<<"1","2","3">>), Num(99900))>>,
   <<Stored(DocBankStatement, Text(<<"1","2","3">>), Num(99900)), Stored(DocBankStatement, Text(<<"1","2","3">>), Num(10000))>>,
   <<Stored(DocBankStatement, Text(<<"1","2","3">>), Num(10000)), Stored(DocBankStatement, Text(<<"4","5","6">>), Num(99900))>>}

\* statements that exercise the balance checks
ContinuityInputs(n) ==
  {[doc_type |-> Text(DocBankStatement), extracted |-> BankFields(o, c, t, None), db |-> <<>>] :
     o \in {None, Num(10000), Text(<<"1","0","0",".","0","0">>)}, c \in ClosingValues, t \in TxValues(n)}
\* statements that exercise the cross-document check
ConsistencyInputs ==
  {[doc_type |-> Text(DocBankStatement), extracted |-> BankFields(o, Num(15000), [shape |-> "list", items |-> q], a),
    db |-> d] :
     o \in OpeningValues, q \in {<<>>, <<Deposit>>, <<NotARecord>>}, a \in AccountValues, d \in Tables}

InvoiceFields(subtotal, tax, total, invoice_date, due_date) ==
  [EmptyFields EXCEPT !.subtotal = subtotal, !.tax = tax, !.total = total,
                      !.invoice_date = invoice_date, !.due_date = due_date]
InvoiceInputs ==
  {[doc_type |-> dt, extracted |-> InvoiceFields(Num(10000), x, t, i, d), db |-> <<>>] :
     dt \in {Text(DocInvoice), Text(<<"I","n","v","o","i","c","e">>)}, x \in {None, Num(1800)}, t \in {Num(11800), Num(11802), Num(11803), Text(<<"n","/","a">>)},
     i \in {None, Text(<<"2","0","2","4","-","1","2","-","0","1">>), Text(<<"2","0","2","4","-","0","1","-","0","5">>), Text(<<"1","5"," ","M","a","r">>), Text(<<"n","/","a">>)}, d \in {None, Text(<<"2","0","2","4","-","0","6","-","0","1">>)}}

PayslipFields(gross, net, deductions) ==
  [EmptyFields EXCEPT !.gross_salary = gross, !.net_salary = net, !.deductions = deductions]
PayslipInputs ==
  {[doc_type |-> Text(DocPayslip), extracted |-> PayslipFields(g, n, d), db |-> <<>>] :
     g \in {None, Num(500000), Num(0), Text(<<"n","/","a">>)}, n \in {None, Num(400000), Num(600000)},
     d \in {None, Num(100000), Num(100006)}}
\* a missing doc_type, an unknown one, and the upper-case spelling of a known one
OtherInputs ==
  {[doc_type |-> dt, extracted |-> BankFields(Num(10000), Num(15000), [shape |-> "list", items |-> <<YearlessDate>>], None),
    db |-> <<>>] : dt \in {None, Text(<<"r","e","c","e","i","p","t">>), Text(<<"B","A","N","K","_","S","T","A","T","E","M","E","N","T">>)}}

\* entries whose amounts lead with 1 (150.00), with 9 (-950.00), and have no leading digit (0.05)
LeadingOne == TxRec(Text(<<"2","0","2","4","-","0","1","-","0","5">>), Text(<<"C","a","r","d">>), Num(15000), None)
LeadingNine == TxRec(Text(<<"2","0","2","4","-","0","1","-","0","5">>), Text(<<"R","e","n","t">>), Num(-95000), None)
\* ones entries leading with 1, then others leading with 9, then small ones below 1
BenfordList(ones, others, small) ==
  [i \in 1..ones |-> LeadingOne] \o [i \in 1..others |-> LeadingNine] \o [i \in 1..small |-> TextAmount]
BenfordLists ==
  {BenfordList(2, 23, 0), BenfordList(23, 2, 0), BenfordList(4, 16, 0), BenfordList(5, 15, 0),
   BenfordList(0, 19, 0), BenfordList(0, 19, 1), BenfordList(0, 20, 0), BenfordList(3, 18, 2)}
\* statements that exercise the Benford check
BenfordInputs ==
  {[doc_type |-> Text(DocBankStatement), extracted |-> BankFields(o, c, [shape |-> "list", items |-> q], None),
    db |-> <<>>] : o \in {None, Num(10000)}, c \in {None, Num(15000)}, q \in BenfordLists}

\* entries with a round amount (500.00), a broken one (123.45) and a zero one
RoundAmount == TxRec(Text(<<"2","0","2","4","-","0","1","-","0","5">>), Text(<<"T","r","a","n","s","f","e","r">>), Num(50000), None)
BrokenAmount == TxRec(Text(<<"2","0","2","4","-","0","1","-","0","5">>), Text(<<"G","r","o","c","e","r">>), Num(-12345), None)
ZeroAmount == TxRec(Text(<<"2","0","2","4","-","0","1","-","0","5">>), Text(<<"M","e","m","o">>), Num(0), None)
RoundList(round, broken, zero) ==
  [i \in 1..round |-> RoundAmount] \o [i \in 1..broken |-> BrokenAmount] \o [i \in 1..zero |-> ZeroAmount]
RoundLists ==
  {RoundList(4, 6, 0), RoundList(3, 7, 0), RoundList(3, 7, 2), RoundList(4, 6, 3),
   RoundList(1, 2, 0), RoundList(1, 3, 0), RoundList(0, 3, 1), RoundList(1, 0, 0)}
\* statements that exercise the round-number check, in rupees and in yen
RoundInputs ==
  {[doc_type |-> Text(DocBankStatement),
    extracted |-> [BankFields(None, c, [shape |-> "list", items |-> q], None) EXCEPT !.currency = cur],
    db |-> <<>>] : c \in {None, Num(15000)}, cur \in {None, Text(<<"J","P","Y">>)}, q \in RoundLists}

\* entries whose balance is 0.05 and 0.06 away from 150.00 - 25.00, and one that
\* carries a balance and no amount
WithinTolerance == TxRec(Text(<<"2","0","2","4","-","0","6","-","0","1">>), Text(<<"A","T","M"," ","C","A","S","H">>), Num(-2500), Num(12505))
OverTolerance == TxRec(Text(<<"2","0","2","4","-","0","6","-","0","1">>), Text(<<"A","T","M"," ","C","A","S","H">>), Num(-2500), Num(12506))
BalanceOnly == TxRec(Text(<<"2","0","2","4","-","0","6","-","0","1">>), Text(<<"C","a","r","r","y">>), None, Num(20000))
RunningLists ==
  {<<Deposit, WithinTolerance>>, <<Deposit, OverTolerance>>, <<Deposit, NoAmount, Withdrawal>>,
   <<Deposit, NoAmount, OverTolerance>>, <<Deposit, BalanceOnly, Withdrawal>>, <<Deposit, Deposit, Deposit>>,
   <<NoAmount, Deposit, TextAmount, Deposit>>, <<BalanceOnly, BalanceOnly>>}
\* statements that exercise the running balance check
RunningInputs ==
  {[doc_type |-> Text(DocBankStatement), extracted |-> BankFields(o, c, [shape |-> "list", items |-> q], None),
    db |-> <<>>] : o \in {None, Num(10000)}, c \in {None, Num(12500)}, q \in RunningLists}

\* entries with a negative and with a zero balance
Overdrawn == TxRec(Text(<<"2","0","2","4","-","0","6","-","0","1">>), Text(<<"C","a","r","d">>), Num(-2500), Num(-100))
Emptied == TxRec(Text(<<"2","0","2","4","-","0","6","-","0","1">>), Text(<<"C","a","r","d">>), Num(-2500), Num(0))
MagnitudeLists ==
  {<<Withdrawal, Deposit>>, <<Deposit>>, <<Deposit, Withdrawal, Deposit>>, <<Deposit, NoAmount, Withdrawal>>,
   <<Overdrawn>>, <<Emptied>>, <<Emptied, Overdrawn, Overdrawn>>, <<NoAmount>>}
\* statements that exercise the closing magnitude check, in rupees and in yen
MagnitudeInputs ==
  {[doc_type |-> Text(DocBankStatement),
    extracted |-> [BankFields(None, c, [shape |-> "list", items |-> q], None) EXCEPT !.currency = cur],
    db |-> <<>>] :
     c \in {None, Num(5000), Num(5001), Num(700000), Num(750000), Num(750001), Num(-1500001)},
     cur \in {None, Text(<<"J","P","Y">>)}, q \in MagnitudeLists}

\* small payments to one counterparty on one day, a large one to the same
\* counterparty, a large one to another, and one to the first on another day
SmallPayment == TxRec(Text(<<"2","0","2","4","-","0","6","-","0","1">>), Text(<<"U","P","I","/","4","4","1","1"," ","S","h","o","p">>), Num(-100), None)
LargePayment == TxRec(Text(<<"2","0","2","4","-","0","6","-","0","1">>), Text(<<"U","P","I","/","4","4","1","2"," ","s","h","o","p">>), Num(-50000), None)
LargeRent == TxRec(Text(<<"2","0","2","4","-","0","6","-","0","1">>), Text(<<"R","e","n","t">>), Num(-50000), None)
LaterPayment == TxRec(Text(<<"2","0","2","4","-","0","6","-","0","2">>), Text(<<"U","P","I","/","4","4","1","3"," ","S","h","o","p">>), Num(-100), None)
VelocityLists ==
  {<<SmallPayment, SmallPayment, SmallPayment, LargeRent, LargeRent, LargeRent>>,
   <<NoAmount, SmallPayment, SmallPayment, SmallPayment, LargeRent, LargeRent, LargeRent>>,
   <<NoAmount, LargePayment, SmallPayment, SmallPayment, LaterPayment, LargeRent, LargeRent>>,
   <<SmallPayment, SmallPayment, LargePayment, LargeRent, LargeRent, LargeRent>>,
   <<SmallPayment, SmallPayment, LaterPayment, LargeRent, LargeRent, LargeRent>>,
   <<SmallPayment, SmallPayment, LargeRent, LargeRent, LargeRent>>,
   <<SmallPayment, LargeRent, SmallPayment, LargeRent, SmallPayment, LargeRent, TextAmount>>,
   <<SmallPayment, SmallPayment, SmallPayment>>}
\* statements that exercise the velocity check
VelocityInputs ==
  {[doc_type |-> Text(DocBankStatement), extracted |-> BankFields(o, c, [shape |-> "list", items |-> q], None),
    db |-> <<>>] : o \in {None, Num(10000)}, c \in {None, Num(15000)}, q \in VelocityLists}

\* an entry dated on the given day of June 2024
DatedEntry(day) ==
  TxRec(Text(<<"2","0","2","4","-","0","6","-","0">> \o <<day>>), Text(<<"C","a","r","d">>), Num(-100), None)
\* lists whose dates run backwards: 5 and 4 entries precede the entry above them
SequenceLists ==
  {<<DatedEntry("6"), DatedEntry("5"), DatedEntry("4"), DatedEntry("3"), DatedEntry("2"), DatedEntry("1")>>,
   <<DatedEntry("5"), DatedEntry("4"), DatedEntry("3"), DatedEntry("2"), DatedEntry("1")>>}
\* statements that exercise the severity of the date sequence issue
SequenceInputs ==
  {[doc_type |-> Text(DocBankStatement), extracted |-> BankFields(o, c, [shape |-> "list", items |-> q], None),
    db |-> <<>>] : o \in {None, Num(10000)}, c \in {Num(10000), Num(9400)}, q \in SequenceLists}

ValidationInputs(n) ==
  ContinuityInputs(n) \cup ConsistencyInputs \cup InvoiceInputs \cup PayslipInputs \cup OtherInputs
    \cup BenfordInputs \cup RoundInputs \cup RunningInputs
    \cup MagnitudeInputs \cup VelocityInputs \cup SequenceInputs

InitVal ==
  /\ \E input \in ValidationInputs(MaxTx) :
       /\ doc_type = input.doc_type
       /\ extracted = input.extracted
       /\ db = input.db
  /\ content = NoContent
  /\ today = StartDay
  /\ pc = "received"
  /\ call = 1
  /\ first = NoFirst
  /\ result = EmptyStatement
  /\ loc = EmptyLocals
  /\ validation = NoValidation
  /\ again = NoValidation
  /\ detected = NoCurrency
  /\ batch = NoBatch
NextVal == Validate \/ Tick \/ Revalidate
SpecVal == InitVal /\ [][NextVal]_vars

(***************************************************************************)
(* _detect_currency and _get_currency_profile on their own: the extracted  *)
(* fields carry a currency field, descriptions and header fields with and  *)
(* without currency symbols.                                               *)
(***************************************************************************)
\* the two steps run_validations takes at lines 195 and 196
DetectCurrencyOf ==
  /\ pc = "fields"
  /\ detected' = [code |-> DetectCurrency(extracted), profile |-> GetCurrencyProfile(DetectCurrency(extracted))]
  /\ pc' = "detected"
  /\ UNCHANGED <<content, today, call, first, result, loc, doc_type, extracted, db, validation, again, batch>>

Described(description, amount) == TxRec(Text(<<"2","0","2","4","-","0","1","-","0","5">>), Text(description), amount, None)
\* more descriptions than are sampled, the last one alone naming a currency
LongDescriptions == [i \in 1..CurrencySample |-> Described(<<"G","r","o","c","e","r","i","e","s">>, Num(5000))] \o <<Described(<<"E","U","R"," ","r","e","f","u","n","d">>, Num(5000))>>
DescriptionLists ==
  {<<>>,
   <<Described(<<"P","a","i","d"," ","$","5"," ","a","t"," ","s","t","o","r","e">>, Num(5000))>>,
   <<Described(<<"S","a","l","a","r","y">>, Num(2000000))>>,
   <<Described(<<"E","U","R"," ","t","r","a","n","s","f","e","r">>, Num(5000)), Described(<<"E","U","R"," ","f","e","e">>, Num(700)), Described(<<"$"," ","c","h","a","r","g","e">>, Num(100))>>,
   <<Described(<<"J","P","Y"," ","o","r","d","e","r">>, Num(5000)), Described(<<"P","a","i","d"," ","$","5"," ","a","t"," ","s","t","o","r","e">>, Num(5000))>>,
   LongDescriptions}
CurrencyFields == {None, Text(<<>>), Text(<<"u","s","d">>), Text(<<" ","J","P","Y"," ">>), Text(<<"C","H","F">>)}
CurrencyInputs ==
  {[EmptyFields EXCEPT !.currency = cur, !.transactions = [shape |-> "list", items |-> q],
                       !.opening_balance_raw = o, !.bank_name = b] :
     cur \in CurrencyFields, q \in DescriptionLists, o \in {None, Text(<<"$","1","0","0",".","0","0">>)}, b \in {None, Text(<<"G","B","P"," ","B","a","n","k">>)}}

InitCurrency ==
  /\ extracted \in CurrencyInputs
  /\ doc_type = Text(DocBankStatement)
  /\ db = <<>>
  /\ content = NoContent
  /\ today = StartDay
  /\ pc = "fields"
  /\ call = 1
  /\ first = NoFirst
  /\ result = EmptyStatement
  /\ loc = EmptyLocals
  /\ validation = NoValidation
  /\ again = NoValidation
  /\ detected = NoCurrency
  /\ batch = NoBatch
NextCurrency == DetectCurrencyOf
SpecCurrency == InitCurrency /\ [][NextCurrency]_vars


(***************************************************************************)
(* ingest_documents: one request with a list of uploads, taken one by one. *)
(* The extraction service is outside: what it answers is chosen freely.    *)
(* After the request, _reanalyze_single runs on the stored documents.      *)
(***************************************************************************)
CONFIDENCE_FRAUD_CAP == 12
CONFIDENCE_ERROR_PENALTY == 15
CONFIDENCE_CRITICAL_WARN_PENALTY == 10
CONFIDENCE_NORMAL_WARN_PENALTY == 3
CONFIDENCE_INFO_PENALTY == 1
CONFIDENCE_FLOOR == 10
FraudBaseConfidence == 85
review_confidence_threshold == 80

\* an upload: whether its content is empty, too large or neither, whether its
\* name ends in .xlsx, .xls or .csv, and what the normalizer finds in it
Upload(size, is_excel, file) == [size |-> size, is_excel |-> is_excel, content |-> file]
\* a statement with rows of every kind, one whose rows are all skipped, one with a row that raises
StatementSheet ==
  <<SummaryOpeningRow, HeaderRow, CreditRow, BlankRow, RepeatedHeaderRow, TotalRow, ClosingRow,
    GarbageRow, NonDateRow, PhantomRow, DebitRow>>
SummaryOnlySheet == <<SummaryOpeningRow, SummaryClosingRow, HeaderRow, NonDateRow>>
RaisingSheet == <<HeaderRow, BadParenRow>>
Uploads ==
  {Upload("empty", TRUE, NoContent), Upload("large", FALSE, NoContent), Upload("ok", FALSE, NoContent),
   Upload("ok", TRUE, [kind |-> "corrupt", ws |-> <<>>]), Upload("ok", TRUE, [kind |-> "nosheet", ws |-> <<>>]),
   Upload("ok", TRUE, [kind |-> "sheet", ws |-> StatementSheet]),
   Upload("ok", TRUE, [kind |-> "sheet", ws |-> SummaryOnlySheet]),
   Upload("ok", TRUE, [kind |-> "sheet", ws |-> RaisingSheet])}
MaxUploads == 2
RECURSIVE UploadSeqs(_)
\* the lists of at most n uploads
UploadSeqs(n) ==
  IF n = 0 THEN {<<>>}
  ELSE UploadSeqs(n - 1) \cup {Append(q, u) : q \in {x \in UploadSeqs(n - 1) : Len(x) = n - 1}, u \in Uploads}

\* what client.analyze_document does: it raises, or it returns a classification
\* (type, confidence, image quality below the review threshold or not) and the extracted fields
Analysis(raised, type, confidence, low_quality, fields) ==
  [raised |-> raised, type |-> type, confidence |-> confidence, low_quality |-> low_quality, fields |-> fields]
Analyses ==
  {Analysis(TRUE, <<>>, 0, FALSE, EmptyFields),
   Analysis(FALSE, DocBankStatement, 98, FALSE,
            BankFields(Num(10000), Num(15000), [shape |-> "list", items |-> <<Deposit>>], Text(<<"1","2","3">>))),
   Analysis(FALSE, DocBankStatement, 98, FALSE,
            BankFields(Num(10000), Num(15000), [shape |-> "list", items |-> <<NotARecord>>], None)),
   Analysis(FALSE, DocUnknown, 50, TRUE, EmptyFields)}

\* the penalty loop over errors and warnings
WarningPenalty(w) ==
  IF w.severity = "critical" THEN CONFIDENCE_CRITICAL_WARN_PENALTY
  ELSE IF w.severity = "warning" THEN CONFIDENCE_NORMAL_WARN_PENALTY
  ELSE CONFIDENCE_INFO_PENALTY
ConfidencePenalty(errors, warnings) ==
  CONFIDENCE_ERROR_PENALTY * Len(errors) + SumSeq([i \in 1..Len(warnings) |-> WarningPenalty(warnings[i])])
Penalized(confidence, penalty) ==
  IF penalty > 0 THEN Max(CONFIDENCE_FLOOR, confidence - penalty) ELSE confidence
HasCritical(anomalies) == \E i \in 1..Len(anomalies) : anomalies[i].severity = "critical"
\* the error ingest_documents adds for a metadata discrepancy
FraudError == [field |-> "metadata_integrity", message |-> "FRAUD", severity |-> "critical"]

\* the confidence and the status of an upload that was analyzed and validated;
\* st is the normalizer's statement, the empty one for a file that is no spreadsheet
IngestErrors(v, st) == v.errors \o (IF st.metadata_discrepancy.present THEN <<FraudError>> ELSE <<>>)
IngestConfidence(analysis, v, st) ==
  Penalized(IF st.metadata_discrepancy.present THEN Min(analysis.confidence, CONFIDENCE_FRAUD_CAP)
            ELSE analysis.confidence,
            ConfidencePenalty(IngestErrors(v, st), v.warnings))
IngestStatus(analysis, v, st) ==
  IF \/ IngestErrors(v, st) # <<>>
     \/ IngestConfidence(analysis, v, st) < review_confidence_threshold
     \/ analysis.low_quality
     \/ analysis.type = DocUnknown
     \/ HasCritical(st.detected_anomalies)
  THEN "review" ELSE "processed"
\* the Document row that is committed
StoredDocument(upload, analysis, v, st) ==
  [doc_type |-> analysis.type, extracted_fields |-> analysis.fields, is_excel |-> upload.is_excel,
   content |-> upload.content, confidence |-> IngestConfidence(analysis, v, st),
   status |-> IngestStatus(analysis, v, st)]

Entry(status) == [status |-> status]
\* results.append(...) and the loop goes on with the next upload
NextUpload(status) ==
  /\ batch' = [batch EXCEPT !.results = Append(@, Entry(status)), !.at = @ + 1]
  /\ pc' = "next"
\* an exception leaves ingest_documents: the request ends without a response body
AbortBatch ==
  /\ batch' = [batch EXCEPT !.outcome = "aborted"]
  /\ pc' = "aborted"

\* the head of the loop body: the upload is read and, if it is a spreadsheet, handed to the normalizer
ReadUpload ==
  /\ pc = "next" /\ batch.outcome = "running" /\ batch.at <= Len(batch.files)
  /\ IF batch.files[batch.at].size = "empty" \/ batch.files[batch.at].size = "large"
     THEN /\ NextUpload("failed")
          /\ UNCHANGED <<content, result, loc>>
     ELSE /\ content' = batch.files[batch.at].content
          /\ result' = EmptyStatement
          /\ loc' = EmptyLocals
          /\ pc' = IF batch.files[batch.at].is_excel THEN "idle" ELSE "done"
          /\ batch' = batch
  /\ UNCHANGED <<today, call, first, doc_type, extracted, db, validation, again, detected>>

\* normalize_excel_statement raised: nothing in the loop body catches it
NormalizerRaised ==
  /\ pc = "raised" /\ batch.outcome = "running"
  /\ AbortBatch
  /\ UNCHANGED <<content, today, call, first, result, loc, doc_type, extracted, db, validation, again, detected>>

\* the validation of the fields and what follows it; excel_result has no transactions here
Validated(upload, analysis, v) ==
  IF v.outcome = "raised"
  THEN /\ AbortBatch
       /\ UNCHANGED <<db, validation, doc_type, extracted>>
  ELSE /\ NextUpload(IngestStatus(analysis, v, result))
       /\ db' = Append(db, StoredDocument(upload, analysis, v, result))
       /\ validation' = v
       /\ doc_type' = Text(analysis.type)
       /\ extracted' = analysis.fields
\* the rest of the loop body: analysis by the extraction service, merge of the
\* normalizer's statement, validation, scoring and persistence
AnalyzeUpload ==
  /\ pc = "done" /\ batch.outcome = "running"
  /\ \E analysis \in Analyses :
       IF analysis.raised
       THEN /\ NextUpload("failed")
            /\ UNCHANGED <<db, validation, doc_type, extracted>>
       ELSE IF result.transactions # <<>>
       THEN \* the merge block ends with excel_result.currency, which NormalizedStatement lacks
            /\ AbortBatch
            /\ UNCHANGED <<db, validation, doc_type, extracted>>
       ELSE Validated(batch.files[batch.at], analysis,
                      RunValidations(Text(analysis.type), analysis.fields, db, today))
  /\ UNCHANGED <<content, today, call, first, result, loc, again, detected>>

\* the loop is over: the response lists the results
ReturnBatch ==
  /\ pc = "next" /\ batch.outcome = "running" /\ batch.at > Len(batch.files)
  /\ batch' = [batch EXCEPT !.outcome = "returned"]
  /\ pc' = "returned"
  /\ UNCHANGED <<content, today, call, first, result, loc, doc_type, extracted, db, validation, again, detected>>

\* ---- _reanalyze_single(doc, session) on the stored document number i ----
\* the start: the stored fields are copied and, for a spreadsheet, the stored
\* file is read and normalized again; read_file may raise
MaxReanalyses == 2
ReanalyzeStart ==
  /\ pc \in {"returned", "aborted", "reanalyzed", "reanalysis_raised"}
  /\ batch.runs < MaxReanalyses
  /\ \E i \in 1..Len(db), readable \in BOOLEAN :
       /\ batch' = [batch EXCEPT !.doc = i, !.before = db[i].extracted_fields, !.previous = 0, !.fraud = FALSE,
                                 !.runs = @ + 1]
       /\ content' = IF db[i].is_excel THEN db[i].content ELSE NoContent
       /\ pc' = IF ~db[i].is_excel THEN "done" ELSE IF readable THEN "idle" ELSE "raised"
  /\ result' = EmptyStatement
  /\ loc' = EmptyLocals
  /\ UNCHANGED <<today, call, first, doc_type, extracted, db, validation, again, detected>>

\* the re-merge up to the read of excel_result.currency, which raises into "except Exception: pass"
MergeAgain(fields, st) ==
  [fields EXCEPT
     !.transactions = IF st.transactions # <<>> /\ Len(st.transactions) > Len(TxList(fields))
                      THEN [shape |-> "list", items |-> st.transactions] ELSE @,
     !.opening_balance = IF st.opening_balance.k # "none" THEN st.opening_balance ELSE @,
     !.closing_balance = IF st.closing_balance.k # "none" THEN st.closing_balance ELSE @,
     !.metadata_discrepancy = IF st.metadata_discrepancy.present THEN st.metadata_discrepancy ELSE @]
\* the fields after the try block: merged when the normalizer returned, the copy otherwise
FieldsAfterTry(stored, normalized, st) == IF normalized THEN MergeAgain(stored, st) ELSE stored
ReanalyzedConfidence(confidence, fraud, v) ==
  Penalized(IF fraud THEN Min(FraudBaseConfidence, CONFIDENCE_FRAUD_CAP) ELSE confidence,
            ConfidencePenalty(v.errors, v.warnings))
ReanalyzedStatus(confidence, v, anomalies) ==
  IF v.errors # <<>> \/ confidence < review_confidence_threshold \/ HasCritical(anomalies)
  THEN "review" ELSE "processed"
\* the index _find_previous_statement returns during the validation, 0 when it is not called or finds none
PreviousOf(dtype, fields, table) ==
  IF Lower(dtype) = DocBankStatement /\ Truthy(fields.account_number)
  THEN FindPreviousStatement(table, fields.account_number) ELSE 0
\* the validation and the update of the document
Reanalyzed(i, fields, fraud, anomalies, v) ==
  IF v.outcome = "raised"
  THEN /\ pc' = "reanalysis_raised"
       /\ UNCHANGED <<db, validation, doc_type, extracted, batch>>
  ELSE /\ pc' = "reanalyzed"
       /\ db' = [db EXCEPT ![i] = [@ EXCEPT
                   !.extracted_fields = fields,
                   !.confidence = ReanalyzedConfidence(db[i].confidence, fraud, v),
                   !.status = ReanalyzedStatus(ReanalyzedConfidence(db[i].confidence, fraud, v), v, anomalies)]]
       /\ validation' = v
       /\ doc_type' = Text(db[i].doc_type)
       /\ extracted' = fields
       /\ batch' = [batch EXCEPT !.fraud = fraud, !.previous = PreviousOf(db[i].doc_type, fields, db)]
ReanalyzedWith(i, fields, normalized) ==
  Reanalyzed(i, fields,
             (normalized /\ result.metadata_discrepancy.present) \/ fields.metadata_discrepancy.present,
             IF normalized THEN result.detected_anomalies ELSE <<>>,
             RunValidations(Text(db[i].doc_type), fields, db, today))
\* the rest of _reanalyze_single, the normalizer having returned (done) or raised
ReanalyzeFinish ==
  /\ batch.doc # 0 /\ pc \in {"done", "raised"} /\ batch.outcome \in {"returned", "aborted"}
  /\ ReanalyzedWith(batch.doc,
                    FieldsAfterTry(db[batch.doc].extracted_fields, pc = "done" /\ content.kind # "none", result),
                    pc = "done" /\ content.kind # "none")
  /\ UNCHANGED <<content, today, call, first, result, loc, again, detected>>

InitBatch ==
  /\ \E files \in UploadSeqs(MaxUploads) \ {<<>>} :
       batch = [NoBatch EXCEPT !.files = files, !.at = 1, !.outcome = "running"]
  /\ content = NoContent
  /\ today = StartDay
  /\ pc = "next"
  /\ call = 1
  /\ first = NoFirst
  /\ result = EmptyStatement
  /\ loc = EmptyLocals
  /\ doc_type = None
  /\ extracted = EmptyFields
  /\ db = <<>>
  /\ validation = NoValidation
  /\ again = NoValidation
  /\ detected = NoCurrency
NextBatch ==
  \/ ReadUpload \/ Normalize \/ NormalizerRaised \/ AnalyzeUpload \/ ReturnBatch
  \/ ReanalyzeStart \/ ReanalyzeFinish
SpecBatch == InitBatch /\ [][NextBatch]_vars

(***************************************************************************)
(* The properties.                                                         *)
(***************************************************************************)
IsBankStatement == doc_type = Text(DocBankStatement)
\* the issues of a list that report the balance-continuity mismatch
ContinuityIssuesIn(issues) ==
  {i \in 1..Len(issues) :
     /\ issues[i].field = "closing_balance"
     /\ issues[i].message = "Opening balance plus transactions does not match closing balance."}
\* opening_balance, closing_balance and the amount of every transaction are numbers
AllNumeric ==
  /\ extracted.opening_balance.k = "num" /\ extracted.closing_balance.k = "num"
  /\ extracted.transactions.shape \in {"none", "list"}
  /\ \A i \in 1..Len(TxList(extracted)) :
       TxList(extracted)[i].shape = "rec" /\ TxList(extracted)[i].amount.k = "num"
\* opening + sum(amounts) - closing of the extracted fields
BalanceGap ==
  extracted.opening_balance.v + SumSeq([i \in 1..Len(TxList(extracted)) |-> TxList(extracted)[i].amount.v])
  - extracted.closing_balance.v

\* C1: for a bank statement whose opening balance, closing balance and
\* transaction amounts are all numeric, whatever the number of transactions,
\* run_validations reports no balance-continuity issue exactly when
\* |opening + sum(amounts) - closing| <= 0.05.
BalanceIdentity ==
  pc = "validated" /\ IsBankStatement /\ AllNumeric =>
    /\ validation.outcome = "returned"
    /\ (ContinuityIssuesIn(validation.errors) = {} /\ ContinuityIssuesIn(validation.warnings) = {})
         <=> (Abs(BalanceGap) <= 5)

IsFraudScenario == content = [kind |-> "sheet", ws |-> FraudSheet]
\* C2: on the sheet that declares opening 100,000 and closing 1,250,000 over
\* rows ending at 125,000, the normalizer records the discrepancy (calculated
\* closing 125,000, ratio 10) with a critical metadata_integrity_failure
\* anomaly, and run_validations on the normalizer's output reports a
\* balance-continuity error of its own.
FraudScenarioCaught ==
  pc = "validated" /\ IsFraudScenario =>
    /\ result.metadata_discrepancy.present
    /\ result.metadata_discrepancy.calculated_closing = 12500000
    /\ result.metadata_discrepancy.ratio = 1000
    /\ \E i \in 1..Len(result.detected_anomalies) :
         /\ result.detected_anomalies[i].type = "metadata_integrity_failure"
         /\ result.detected_anomalies[i].severity = "critical"
    /\ validation.outcome = "returned"
    /\ ContinuityIssuesIn(validation.errors) # {}

\* C3: whenever the normalizer records a metadata discrepancy, the closing
\* balance it returns is the declared closing value of the discrepancy.
DeclaredClosingKept ==
  pc \in {"done", "validated"} /\ result.metadata_discrepancy.present =>
    result.closing_balance = Num(result.metadata_discrepancy.header_closing)

\* the rows below the header that are labelled CLOSING BALANCE and hold a number
\* in the balance column
ClosingRowsMet ==
  {r \in (loc.header_row + 1)..MaxRow(Ws) :
     /\ DescLabel(RowValues(Ws, loc.col_map, r)) = ClosingLabel
     /\ SafeFloat(RowValues(Ws, loc.col_map, r).balance_val).k = "num"}
\* C4: the closing balance is the value of the first CLOSING BALANCE row the
\* scan meets; without such a row the running balance of the last transaction
\* that has one; without that the value of the summary scan; else null.
ClosingPriority ==
  pc = "done" /\ content.kind = "sheet" =>
    result.closing_balance =
      IF ClosingRowsMet # {}
      THEN SafeFloat(RowValues(Ws, loc.col_map, FirstOf(ClosingRowsMet)).balance_val)
      ELSE IF LastTxBalance(result.transactions).k = "num" THEN LastTxBalance(result.transactions)
      ELSE loc.summary_closing

\* C5: normalize_excel_statement never raises, and for bytes that are no
\* workbook it returns a statement without transactions whose repair log
\* holds a diagnostic.
NormalizerNeverRaises ==
  /\ pc # "raised"
  /\ pc = "done" /\ content.kind = "corrupt" =>
       result.transactions = <<>> /\ \E i \in 1..Len(result.repair_log) :
                                       result.repair_log[i].msg = "failed to open workbook"

\* C6: run_validations never raises, whatever the doc_type, the fields, the
\* transactions value, its entries and the stored statements are.
ValidatorNeverRaises == validation.outcome # "raised" /\ again.outcome # "raised"

\* C7: two calls of run_validations with the same doc_type, the same fields
\* and the same stored statements return the same errors, warnings and
\* consistency, whenever each of them is made.
ValidatorIsPure == pc = "revalidated" => again = validation

\* C8: normalizing the same bytes twice gives the same transactions (dates
\* included), opening balance and closing balance.
NormalizerIsIdempotent ==
  call = 2 /\ pc = "done" =>
    /\ result.transactions = first.statement.transactions
    /\ result.opening_balance = first.statement.opening_balance
    /\ result.closing_balance = first.statement.closing_balance

\* the stored bank statements of the account of the extracted fields
PriorStatements ==
  {i \in 1..Len(db) :
     /\ db[i].doc_type = DocBankStatement
     /\ db[i].extracted_fields.account_number = extracted.account_number}
\* the closing balance of the statement the lookup returns, the latest one
PriorClosing ==
  SafeNumber(db[CHOOSE i \in PriorStatements : \A j \in PriorStatements : j <= i].extracted_fields.closing_balance)
\* a prior statement exists, both balances are numeric and they differ by more than 0.05
BalancesDisagree ==
  /\ PriorStatements # {}
  /\ PriorClosing.k = "num" /\ SafeNumber(extracted.opening_balance).k = "num"
  /\ Abs(PriorClosing.v - SafeNumber(extracted.opening_balance).v) > 5
\* C9: for a bank statement with an account number, run_validations returns
\* consistent = false with exactly one issue, on opening_balance and critical,
\* exactly when the latest stored statement of the account has a numeric
\* closing balance that differs from the numeric opening balance by more than
\* 0.05; in every other case consistent = true and no issue.
CrossDocumentConsistency ==
  pc = "validated" /\ IsBankStatement /\ Truthy(extracted.account_number)
    /\ validation.outcome = "returned" =>
      IF BalancesDisagree
      THEN /\ validation.consistency.consistent = FALSE
           /\ Len(validation.consistency.issues) = 1
           /\ validation.consistency.issues[1].field = "opening_balance"
           /\ validation.consistency.issues[1].severity = "critical"
      ELSE validation.consistency = [consistent |-> TRUE, issues |-> <<>>]
CrossDocumentIssue ==
  /\ pc = "validated" /\ IsBankStatement /\ Truthy(extracted.account_number)
  /\ validation.outcome = "returned"
  /\ BalancesDisagree
  /\ validation.consistency.consistent = FALSE
  /\ Len(validation.consistency.issues) = 1

\* the number of alphanumeric characters of a text
AlnumCount(text) == Cardinality({i \in 1..Len(text) : IsAlnum(text[i])})
\* longer than 5 characters with an alphanumeric ratio below 0.3, or holding a
\* known corrupted-OCR substring
IsNoise(text) ==
  \/ Len(text) > 5 /\ AlnumCount(text) * 10 < 3 * Len(text)
  \/ text # <<>> /\ GarbagePattern(Strip(Lower(text)))
IsNoiseRow(row) ==
  ~RowIsEmpty(row) /\ ~RowHasHeaderText(row) /\ ~RowIsSummary(row) /\ IsNoise(DescText(row))
\* the data rows below the header whose description is noise
NoiseRows == {r \in (loc.header_row + 1)..MaxRow(Ws) : IsNoiseRow(RowValues(Ws, loc.col_map, r))}
GarbageAnomalies ==
  {i \in 1..Len(result.detected_anomalies) : result.detected_anomalies[i].type = "garbage_text"}
\* C10: every data row below the header whose description is noise is absent
\* from transactions and has exactly one garbage_text anomaly of severity
\* warning that carries its row index; there are as many garbage_text
\* anomalies as such rows.
GarbageRowsExcluded ==
  pc = "done" /\ content.kind = "sheet" =>
    /\ \A r \in NoiseRows :
         /\ \A i \in 1..Len(result.transactions) : result.transactions[i].row_index # r
         /\ Cardinality({i \in GarbageAnomalies :
                           /\ result.detected_anomalies[i].row = r
                           /\ result.detected_anomalies[i].severity = "warning"}) = 1
    /\ Cardinality(GarbageAnomalies) = Cardinality(NoiseRows)

\* the date_sequence issues of a list
DateSequenceIssuesIn(issues) == {i \in 1..Len(issues) : issues[i].field = "date_sequence"}
\* the transactions whose parsed date is earlier than the most recent parsed date before them
OutOfOrder ==
  {i \in 1..Len(TxList(extracted)) :
     /\ ParseDate(TxList(extracted)[i].date, StartDay).k = "dt"
     /\ \E j \in 1..(i - 1) :
          /\ ParseDate(TxList(extracted)[j].date, StartDay).k = "dt"
          /\ \A m \in (j + 1)..(i - 1) : ParseDate(TxList(extracted)[m].date, StartDay).k # "dt"
          /\ ParseDate(TxList(extracted)[i].date, StartDay).v < ParseDate(TxList(extracted)[j].date, StartDay).v}
\* C11: for a bank statement with at least one transaction, with or without
\* opening and closing balance, run_validations reports exactly one
\* date_sequence issue when some transaction is dated before the most recent
\* dated transaction above it, and none otherwise; the issue counts those
\* transactions and is critical from 5 of them on, a warning below.
DateSequenceIndependent ==
  pc = "validated" /\ today = StartDay /\ IsBankStatement /\ validation.outcome = "returned"
    /\ TxList(extracted) # <<>> =>
      /\ DateSequenceIssuesIn(validation.errors) = {}
      /\ IF OutOfOrder = {} THEN DateSequenceIssuesIn(validation.warnings) = {}
         ELSE /\ Cardinality(DateSequenceIssuesIn(validation.warnings)) = 1
              /\ \A i \in DateSequenceIssuesIn(validation.warnings) :
                   /\ validation.warnings[i].count = Cardinality(OutOfOrder)
                   /\ validation.warnings[i].severity =
                        IF Cardinality(OutOfOrder) >= 5 THEN "critical" ELSE "warning"

\* the issues of a list that are about the given field
IssuesAbout(issues, field) == {i \in 1..Len(issues) : issues[i].field = field}
\* the numeric amounts of the statement, as _safe_number reads them
AmountAt(i) == SafeNumber(TxList(extracted)[i].amount)
\* the entries whose amount is at least 1 in absolute value
WithLeadingDigit ==
  {i \in 1..Len(TxList(extracted)) : AmountAt(i).k = "num" /\ Abs(AmountAt(i).v) >= 100}
\* those of them whose whole part starts with the digit 1
LeadsWithOne ==
  {i \in WithLeadingDigit : \E e \in 0..7 : 10^e <= Abs(AmountAt(i).v) \div 100 /\ Abs(AmountAt(i).v) \div 100 < 2 * 10^e}
\* C12: run_validations on a bank statement reports a benford warning exactly
\* when at least 20 amounts have a leading digit (absolute value of 1 or more)
\* and fewer than a quarter of them lead with 1; the warning's ratio is that
\* fraction, to three decimals.
BenfordWarning ==
  pc = "validated" /\ IsBankStatement /\ validation.outcome = "returned" =>
    /\ IssuesAbout(validation.errors, "benford") = {}
    /\ IF Cardinality(WithLeadingDigit) >= 20 /\ 4 * Cardinality(LeadsWithOne) < Cardinality(WithLeadingDigit)
       THEN /\ Cardinality(IssuesAbout(validation.warnings, "benford")) = 1
            /\ \A i \in IssuesAbout(validation.warnings, "benford") :
                 /\ validation.warnings[i].severity = "warning"
                 /\ 2 * Abs(1000 * Cardinality(LeadsWithOne)
                             - validation.warnings[i].ratio * Cardinality(WithLeadingDigit))
                      <= Cardinality(WithLeadingDigit)
       ELSE IssuesAbout(validation.warnings, "benford") = {}
\* a statement with 2 amounts of 25 leading with 1 has been given the warning with ratio 0.08
BenfordWarned ==
  /\ pc = "validated" /\ validation.outcome = "returned"
  /\ Cardinality(WithLeadingDigit) = 25 /\ Cardinality(LeadsWithOne) = 2
  /\ \E i \in IssuesAbout(validation.warnings, "benford") : validation.warnings[i].ratio = 80

\* the entries whose amount is numeric and not zero
NonZeroAmounts == {i \in 1..Len(TxList(extracted)) : AmountAt(i).k = "num" /\ AmountAt(i).v # 0}
\* those of them that are round for the given profile
RoundFor(profile) ==
  {i \in NonZeroAmounts :
     Abs(AmountAt(i).v) >= profile.min_round /\ Abs(AmountAt(i).v) % profile.round_unit = 0}
\* those of them that are round in the detected currency
RoundOnes == RoundFor(GetCurrencyProfile(DetectCurrency(extracted)))
\* C13: run_validations on a bank statement reports a round_numbers warning
\* exactly when, among the amounts that are not zero, more than 30% are at
\* least min_round in absolute value and a multiple of round_unit of the
\* detected currency; the warning carries round_count and total_count.
RoundNumbersWarning ==
  pc = "validated" /\ IsBankStatement /\ validation.outcome = "returned" =>
    /\ IssuesAbout(validation.errors, "round_numbers") = {}
    /\ IF 10 * Cardinality(RoundOnes) > 3 * Cardinality(NonZeroAmounts)
       THEN /\ Cardinality(IssuesAbout(validation.warnings, "round_numbers")) = 1
            /\ \A i \in IssuesAbout(validation.warnings, "round_numbers") :
                 /\ validation.warnings[i].severity = "warning"
                 /\ validation.warnings[i].round_count = Cardinality(RoundOnes)
                 /\ validation.warnings[i].total_count = Cardinality(NonZeroAmounts)
       ELSE IssuesAbout(validation.warnings, "round_numbers") = {}
\* a rupee statement with 4 round amounts among 10 has been given the warning
RoundNumbersWarned ==
  /\ pc = "validated" /\ validation.outcome = "returned"
  /\ Cardinality(NonZeroAmounts) = 10 /\ Cardinality(RoundOnes) = 4
  /\ \E i \in IssuesAbout(validation.warnings, "round_numbers") :
       /\ validation.warnings[i].round_count = 4 /\ validation.warnings[i].total_count = 10
       /\ validation.warnings[i].currency = "INR"

\* a cell of row r holds an alias of the semantic column
CellMaps(r, sem) ==
  \E c \in 1..MaxColumn(Ws) : \E a \in Range(HEADER_ALIASES[sem]) :
    Contains(a, Lower(Strip(StrOrEmpty(Cell(Ws, r, c)))))
\* the rows among the first 30 that map date and one of debit, credit, description
HeaderCandidates ==
  {r \in 1..Min(HeaderMaxScan, Len(Ws)) :
     CellMaps(r, "date") /\ (CellMaps(r, "debit") \/ CellMaps(r, "credit") \/ CellMaps(r, "description"))}
FallbackLogged == \E i \in 1..Len(result.repair_log) : result.repair_log[i].msg = "could not detect header row"
\* the normalizer has gone past header detection on a sheet
HeaderDetected == content.kind = "sheet" /\ pc \in {"scan", "final", "done"}
\* C14: the header is the first of the first 30 rows whose cells map date and
\* at least one of debit, credit, description through the aliases, so no row
\* without a date column is chosen; when no row qualifies the layout is
\* date=2, description=4, debit=5, credit=6, balance=7 with the header at
\* row 1, and the repair log says so.
HeaderChoice ==
  HeaderDetected =>
    IF HeaderCandidates # {}
    THEN /\ loc.header_row \in HeaderCandidates
         /\ \A r \in HeaderCandidates : loc.header_row <= r
         /\ loc.col_map["date"] \in 1..MaxColumn(Ws)
         /\ ~FallbackLogged
    ELSE /\ loc.header_row = 1
         /\ loc.col_map["date"] = 2 /\ loc.col_map["description"] = 4 /\ loc.col_map["debit"] = 5
         /\ loc.col_map["credit"] = 6 /\ loc.col_map["balance"] = 7
         /\ FallbackLogged
\* the header was found below a row that maps debit and credit but no date
HeaderBelowLookalike ==
  /\ HeaderDetected /\ loc.header_row = 2
  /\ CellMaps(1, "debit") /\ CellMaps(1, "credit") /\ ~CellMaps(1, "date")

\* the normalizer has returned the statement of a sheet
SheetDone == content.kind = "sheet" /\ pc \in {"done", "validated"}
\* the five cells the scan reads from row r are all empty
BlankAt(r) ==
  \A sem \in {"date", "description", "debit", "credit", "balance"} :
    \/ Cell(Ws, r, ColOf(loc.col_map, sem)).k = "none"
    \/ Strip(Str(Cell(Ws, r, ColOf(loc.col_map, sem)))) = <<>>
\* a run of n empty rows lies between the header and row r
BlankRunAbove(r, n) ==
  \E a \in (loc.header_row + 1)..(r - n) : \A k \in a..(a + n - 1) : BlankAt(k)
\* the rows below the header that would be transactions if the scan reached them
WouldBeTransaction ==
  {r \in (loc.header_row + 1)..Len(Ws) : RowKind(RowValues(Ws, loc.col_map, r), today) = "transaction"}
RowIsParsed(r) == \E i \in 1..Len(result.transactions) : result.transactions[i].row_index = r
\* the scan ends at the n-th empty row in a row and at nothing else
StopsAtRun(n) == SheetDone => \A r \in WouldBeTransaction : RowIsParsed(r) <=> ~BlankRunAbove(r, n)
\* C15: the parse ends once 10 empty rows in a row have been seen: a data row
\* below a run of 10 or more empty rows is never among the transactions, one
\* below a run of at most 9 is parsed, and a non-empty row restarts the count.
StopsAfterTenEmptyRows == StopsAtRun(10)
\* C15, amended: the parse ends at the 11th empty row in a row: a data row
\* below a run of 11 or more empty rows is never among the transactions, one
\* below a run of at most 10 is parsed, and a non-empty row restarts the count.
StopsAfterElevenEmptyRows == StopsAtRun(11)
\* a row below exactly 10 empty rows has been parsed, on a sheet whose rows
\* below a longer run were not
ParsedBelowTenEmptyRows ==
  /\ SheetDone
  /\ \E r \in WouldBeTransaction : RowIsParsed(r) /\ BlankRunAbove(r, 10) /\ ~BlankRunAbove(r, 11)

\* a text of the form YYYY-MM-DD
IsIsoText(t) ==
  /\ Len(t) = 10 /\ t[5] = "-" /\ t[8] = "-"
  /\ \A i \in {1, 2, 3, 4, 6, 7, 9, 10} : IsDigit(t[i])
\* the rows the scan takes as data whose date cell holds text that is no date
UndatedRows ==
  {r \in (loc.header_row + 1)..Len(Ws) :
     /\ ~BlankRunAbove(r, EmptyStreakMax + 1)
     /\ RowKind(RowValues(Ws, loc.col_map, r), today) \in {"non_date", "phantom", "transaction"}
     /\ Strip(StrOrEmpty(Cell(Ws, r, ColOf(loc.col_map, "date")))) # <<>>
     /\ TryParseDate(Cell(Ws, r, ColOf(loc.col_map, "date")), today).k # "dt"}
\* one of the debit, credit and balance cells of row r holds a number
HasNumber(r) ==
  \E sem \in {"debit", "credit", "balance"} : SafeFloat(Cell(Ws, r, ColOf(loc.col_map, sem))).k = "num"
\* C16: a row whose date cell holds text that does not parse as a date is
\* dropped when it has no numeric debit, credit or balance, and is otherwise
\* kept as a transaction with a null date; so the date of every transaction
\* is null or a YYYY-MM-DD text.
ContinuationRowsUndated ==
  SheetDone =>
    /\ \A r \in UndatedRows :
         IF HasNumber(r)
         THEN \E i \in 1..Len(result.transactions) :
                result.transactions[i].row_index = r /\ result.transactions[i].date = None
         ELSE ~RowIsParsed(r)
    /\ \A i \in 1..Len(result.transactions) :
         \/ result.transactions[i].date = None
         \/ result.transactions[i].date.k = "str" /\ IsIsoText(result.transactions[i].date.s)

\* the rows the scan reaches that are not empty, header, summary or garbage
\* rows and hold no number in the debit, credit and balance cells
RowsWithoutNumber ==
  {r \in (loc.header_row + 1)..Len(Ws) :
     /\ ~BlankRunAbove(r, EmptyStreakMax + 1)
     /\ RowKind(RowValues(Ws, loc.col_map, r), today) \notin {"empty", "header_text", "summary", "garbage", "raises"}
     /\ ~HasNumber(r)}
SkipLogged(r) ==
  \E i \in 1..Len(result.repair_log) :
    result.repair_log[i].row = r /\ result.repair_log[i].msg \in {"skipped phantom row", "skipped non-date row"}
\* C17: every transaction has an amount or a balance that is not null; a row
\* with neither is never appended, and the repair log records its skip.
NoPhantomTransactions ==
  SheetDone =>
    /\ \A i \in 1..Len(result.transactions) :
         result.transactions[i].amount.k = "num" \/ result.transactions[i].balance.k = "num"
    /\ \A r \in RowsWithoutNumber : ~RowIsParsed(r) /\ SkipLogged(r)
\* a dated row without amount and balance has been skipped as a phantom row
PhantomRowSkipped ==
  /\ SheetDone
  /\ \E r \in RowsWithoutNumber : \E i \in 1..Len(result.repair_log) :
       result.repair_log[i].row = r /\ result.repair_log[i].msg = "skipped phantom row"

\* the transactions that carry a balance
WithBalance == {i \in 1..Len(result.transactions) : result.transactions[i].balance.k = "num"}
\* the running balance of the last of them
CalculatedClosing == result.transactions[CHOOSE i \in WithBalance : \A j \in WithBalance : j <= i].balance.v
\* the declared closing d and the calculated closing c disagree the way the check asks for
Tampered(d, c) == Abs(d - c) > 100 /\ c # 0 /\ Abs(d) > 5 * Abs(c)
\* r is |d / c| to two decimals, in hundredths
IsRatioOf(r, d, c) ==
  2 * Abs(100 * (Abs(d) % Abs(c)) - (r - 100 * (Abs(d) \div Abs(c))) * Abs(c)) <= Abs(c)
OpeningRowsMet ==
  {r \in (loc.header_row + 1)..Min(loc.header_row + OpeningScanRows, Len(Ws)) :
     /\ \E c \in 1..Min(MaxColumn(Ws), 9) :
          Contains(<<"O","P","E","N","I","N","G"," ","B","A","L","A","N","C","E">>, Upper(StrOrEmpty(Cell(Ws, r, c))))
     /\ SafeFloat(Cell(Ws, r, ColOf(loc.col_map, "balance"))).k = "num"}
\* C19: when a row right below the header is labelled OPENING BALANCE and its
\* balance-column cell is numeric, opening_balance is that value, whatever
\* the summary scan found; otherwise it is the summary-scan value, null when
\* there is none.
OpeningPriority ==
  SheetDone =>
    IF OpeningRowsMet # {}
    THEN result.opening_balance =
           SafeFloat(Cell(Ws, CHOOSE r \in OpeningRowsMet : \A q \in OpeningRowsMet : r <= q,
                          ColOf(loc.col_map, "balance")))
    ELSE result.opening_balance = loc.summary_opening
\* the labelled row has won over a summary value that differs from it
OpeningRowWon ==
  /\ SheetDone /\ OpeningRowsMet # {}
  /\ loc.summary_opening.k = "num" /\ result.opening_balance.k = "num"
  /\ result.opening_balance # loc.summary_opening

\* the explicit currency field, upper-cased and stripped; empty when there is none
ExplicitText == IF Truthy(extracted.currency) THEN Strip(Upper(Str(extracted.currency))) ELSE <<>>
\* the weighted vote of a code: 1 for each symbol of the code found in one of
\* the first 30 descriptions, 5 for each found in a header field
Weight(code) ==
  Cardinality({h \in (1..Min(Len(TxList(extracted)), 30)) \X (1..Len(SymbolMap)) :
                 /\ SymbolMap[h[2]].code = code
                 /\ Contains(SymbolMap[h[2]].sym, StrOrEmpty(TxList(extracted)[h[1]].description))})
  + 5 * Cardinality({h \in {extracted.opening_balance_raw, extracted.closing_balance_raw, extracted.bank_name}
                            \X (1..Len(SymbolMap)) :
                       SymbolMap[h[2]].code = code /\ Contains(SymbolMap[h[2]].sym, StrOrEmpty(h[1]))})
\* the explicit currency field names one of the known codes
ExplicitIsKnown == \E code \in CurrencyCodes : CodeText(code) = ExplicitText
\* C20: an explicit currency field wins over every symbol in the data: a
\* known code is returned as it stands, an unknown one gets the default
\* profile; without an explicit field the code with the highest weighted vote
\* wins; without votes the magnitude heuristic and the default, both INR,
\* apply.  The code that is returned selects its profile.
CurrencyPriority ==
  pc = "detected" =>
    /\ IF ExplicitText # <<>>
       THEN IF ExplicitIsKnown THEN CodeText(detected.code) = ExplicitText
            ELSE detected.profile = DEFAULT_PROFILE
       ELSE IF \E code \in CurrencyCodes : Weight(code) > 0
       THEN \A code \in CurrencyCodes : Weight(code) <= Weight(detected.code)
       ELSE detected.code = "INR"
    /\ detected.profile =
         IF detected.code \in CurrencyCodes THEN CURRENCY_PROFILES[detected.code] ELSE DEFAULT_PROFILE

\* the balance of entry i, as _safe_number reads it
BalanceAt(i) == SafeNumber(TxList(extracted)[i].balance)
\* the rows with a numeric amount and balance that are more than 0.05 away from
\* the nearest earlier numeric balance plus the amount
UnreconciledRows ==
  {i \in 1..Len(TxList(extracted)) :
     /\ AmountAt(i).k = "num" /\ BalanceAt(i).k = "num"
     /\ \E j \in 1..(i - 1) :
          /\ BalanceAt(j).k = "num"
          /\ \A m \in (j + 1)..(i - 1) : BalanceAt(m).k # "num"
          /\ Abs(BalanceAt(j).v + AmountAt(i).v - BalanceAt(i).v) > 5}
\* C22: run_validations reports at most one issue on field balance, a warning,
\* exactly when some row with a numeric amount and balance is more than 0.05
\* away from the nearest earlier numeric row balance plus its amount; the
\* issue counts those rows.
RunningBalanceReported ==
  pc = "validated" /\ IsBankStatement /\ validation.outcome = "returned" =>
    /\ IssuesAbout(validation.errors, "balance") = {}
    /\ IF UnreconciledRows = {} THEN IssuesAbout(validation.warnings, "balance") = {}
       ELSE /\ Cardinality(IssuesAbout(validation.warnings, "balance")) = 1
            /\ \A i \in IssuesAbout(validation.warnings, "balance") :
                 validation.warnings[i].count = Cardinality(UnreconciledRows)
\* a row was found unreconciled against a balance two rows above it
UnreconciledAcrossGap ==
  /\ pc = "validated" /\ IsBankStatement /\ validation.outcome = "returned"
  /\ \E i \in UnreconciledRows : i > 2 /\ BalanceAt(i - 1).k # "num"
  /\ IssuesAbout(validation.warnings, "balance") # {}

\* the issues of a list that carry the given message
IssuesSaying(issues, message) == {i \in 1..Len(issues) : issues[i].message = message}
SummaryInjection == "Closing balance does not match last row balance (summary injection)."
\* the rows that carry the last numeric balance of the statement
LastNumericRow ==
  {i \in 1..Len(TxList(extracted)) :
     BalanceAt(i).k = "num" /\ \A j \in (i + 1)..Len(TxList(extracted)) : BalanceAt(j).k # "num"}
DeclaredClosing == SafeNumber(extracted.closing_balance)
\* C23: for a bank statement with transactions, run_validations emits exactly
\* one critical closing_balance issue with the summary injection message when
\* the declared closing balance and some row balance are numeric and the
\* declared closing is more than 0.05 away from the last numeric row balance,
\* and none otherwise; the issue expects that row balance and reports the
\* declared closing as actual.
ClosingVsLastRowReported ==
  pc = "validated" /\ IsBankStatement /\ validation.outcome = "returned" /\ TxList(extracted) # <<>> =>
    LET said == IssuesSaying(validation.errors \o validation.warnings, SummaryInjection)
        all == validation.errors \o validation.warnings
    IN  IF DeclaredClosing.k = "num"
           /\ \E i \in LastNumericRow : Abs(DeclaredClosing.v - BalanceAt(i).v) > 5
        THEN /\ Cardinality(said) = 1
             /\ \A n \in said :
                  /\ all[n].field = "closing_balance"
                  /\ all[n].severity = "critical"
                  /\ all[n].actual = DeclaredClosing.v
                  /\ \A i \in LastNumericRow : all[n].expected = BalanceAt(i).v
        ELSE said = {}
\* the issue was raised against a balance that is not in the last row
InjectionAgainstEarlierRow ==
  /\ pc = "validated" /\ IsBankStatement /\ validation.outcome = "returned"
  /\ \E i \in LastNumericRow : i < Len(TxList(extracted)) /\ Abs(DeclaredClosing.v - BalanceAt(i).v) = 6
  /\ DeclaredClosing.k = "num"
  /\ IssuesSaying(validation.warnings, SummaryInjection) # {}

MagnitudeMessage == "Closing balance magnitude is far outside the transaction balance range."
\* the numeric row balances, in row order
RowBalances == Numeric([i \in 1..Len(TxList(extracted)) |-> BalanceAt(i)])
\* twice the statistical median of a list that is not empty: the middle value
\* counted twice, or the sum of the two middle values
TwiceMedian(values) ==
  IF Len(values) % 2 = 1 THEN 2 * SortedAt(values, Len(values) \div 2)
  ELSE SortedAt(values, Len(values) \div 2 - 1) + SortedAt(values, Len(values) \div 2)
\* C24: for a bank statement with a numeric closing balance and at least one
\* numeric row balance, run_validations emits a critical closing_balance issue
\* with the magnitude message exactly when abs(closing) is greater than the
\* statistical median of the row balances times the outlier factor of the
\* detected currency, whatever the sign of the median.
MagnitudeAgainstMedian ==
  pc = "validated" /\ IsBankStatement /\ validation.outcome = "returned"
    /\ DeclaredClosing.k = "num" /\ RowBalances # <<>> =>
      LET all == validation.errors \o validation.warnings
          said == IssuesSaying(validation.errors \o validation.warnings, MagnitudeMessage)
      IN  /\ said # {} <=>
               2 * Abs(DeclaredClosing.v)
                 > TwiceMedian(RowBalances) * GetCurrencyProfile(DetectCurrency(extracted)).outlier_factor
          /\ \A n \in said : all[n].field = "closing_balance" /\ all[n].severity = "critical"

\* the normalized counterparty and the calendar day of entry i
CounterpartyAt(i) == NormalizeCounterparty(StrOrEmpty(TxList(extracted)[i].description))
DayAt(i) == ParseDate(TxList(extracted)[i].date, StartDay)
\* the entries that belong to some group: dated, with a counterparty
Grouped == {i \in 1..Len(TxList(extracted)) : DayAt(i).k = "dt" /\ CounterpartyAt(i) # <<>>}
GroupOf(i) == {j \in Grouped : DayAt(j).v = DayAt(i).v /\ CounterpartyAt(j) = CounterpartyAt(i)}
\* the members of a group whose own amount is not above the threshold (100 times the percentile)
SmallIn(group, small100) == {j \in group : AmountAt(j).k = "num" /\ Abs(AmountAt(j).v) * 100 <= small100}
VelocityExpected(small100) ==
  \E i \in Grouped :
    Cardinality(GroupOf(i)) >= 3 /\ Cardinality(SmallIn(GroupOf(i), small100)) >= 3
\* C25: for a bank statement with transactions, run_validations emits a
\* velocity warning exactly when some group of transactions of one calendar
\* day and one non-empty normalized counterparty has at least 3 members of
\* which at least 3 have an absolute amount within the 30th percentile of all
\* absolute amounts, each member counted with its own amount, also when other
\* transactions have no parsable amount.
VelocityByOwnAmount ==
  pc = "validated" /\ today = StartDay /\ IsBankStatement /\ validation.outcome = "returned"
    /\ TxList(extracted) # <<>> =>
      /\ IssuesAbout(validation.errors, "velocity") = {}
      /\ IssuesAbout(validation.warnings, "velocity") # {}
           <=> VelocityExpected(SmallThreshold100(TxAmounts(TxList(extracted))))

\* the issues of a list whose severity is among the given ones
AllOfSeverity(issues, severities) == \A i \in 1..Len(issues) : issues[i].severity \in severities
\* the critical issues that run_validations appends to warnings: the two
\* closing balance findings of the "if transactions:" block and the date
\* sequence issue from 5 violations on
CriticalWarning(issue) ==
  \/ issue.field = "closing_balance" /\ issue.message \in {SummaryInjection, MagnitudeMessage}
  \/ issue.field = "date_sequence" /\ issue.count >= DateSequenceCritical
\* C30 as stated: in every result of run_validations each issue in errors is
\* critical and each issue in warnings is a warning or an info, so that no
\* critical finding travels in warnings.
CriticalOnlyInErrors ==
  pc = "validated" /\ validation.outcome = "returned" =>
    /\ AllOfSeverity(validation.errors, {"critical"})
    /\ AllOfSeverity(validation.warnings, {"warning", "info"})
\* C30, amended: each issue in errors is critical; each issue in warnings is a
\* warning, an info or a critical issue, and the critical ones in warnings are
\* the summary injection issue, the closing magnitude issue and the date
\* sequence issue with at least 5 violations, which are always in warnings.
SeverityRouting ==
  pc = "validated" /\ validation.outcome = "returned" =>
    /\ AllOfSeverity(validation.errors, {"critical"})
    /\ AllOfSeverity(validation.warnings, {"warning", "info", "critical"})
    /\ \A i \in 1..Len(validation.warnings) :
         validation.warnings[i].severity = "critical" <=> CriticalWarning(validation.warnings[i])
    /\ \A i \in 1..Len(validation.errors) : ~CriticalWarning(validation.errors[i])
\* a result with a critical issue in errors and critical issues of both kinds in warnings
CriticalOnBothSides ==
  /\ pc = "validated" /\ validation.outcome = "returned"
  /\ validation.errors # <<>>
  /\ \E i \in 1..Len(validation.warnings) :
       validation.warnings[i].severity = "critical" /\ validation.warnings[i].field = "closing_balance"
  /\ \E i \in 1..Len(validation.warnings) : validation.warnings[i].severity = "info"

\* C26: in every transaction the normalizer produces, tx_type is credit,
\* debit or unknown; a credit has a positive amount and a debit a negative
\* one, and a positive amount belongs to a credit, a negative one to a debit.
SignMatchesType ==
  SheetDone =>
    \A i \in 1..Len(result.transactions) :
      LET tx == result.transactions[i]
      IN  /\ tx.tx_type \in {"credit", "debit", "unknown"}
          /\ tx.tx_type = "credit" => tx.amount.k = "num" /\ tx.amount.v > 0
          /\ tx.tx_type = "debit" => tx.amount.k = "num" /\ tx.amount.v < 0
          /\ tx.amount.k = "num" /\ tx.amount.v > 0 => tx.tx_type = "credit"
          /\ tx.amount.k = "num" /\ tx.amount.v < 0 => tx.tx_type = "debit"

\* the anomalies of the statement that report a metadata integrity failure
IntegrityFailures ==
  {i \in 1..Len(result.detected_anomalies) : result.detected_anomalies[i].type = "metadata_integrity_failure"}
\* C29: in every statement the normalizer returns, metadata_discrepancy is set
\* exactly when detected_anomalies holds one metadata_integrity_failure
\* anomaly, which is critical; there are never two of them.
DiscrepancyHasOneAnomaly ==
  pc \in {"done", "validated"} =>
    /\ Cardinality(IntegrityFailures) <= 1
    /\ result.metadata_discrepancy.present <=> Cardinality(IntegrityFailures) = 1
    /\ \A i \in IntegrityFailures : result.detected_anomalies[i].severity = "critical"
\* a statement with the record and its anomaly, next to anomalies of other types
DiscrepancyWithAnomaly ==
  /\ pc \in {"done", "validated"}
  /\ result.metadata_discrepancy.present
  /\ \A i \in IntegrityFailures :
       result.detected_anomalies[i].discrepancy = result.metadata_discrepancy.discrepancy
  /\ Cardinality(IntegrityFailures) = 1

\* C21: no upload aborts the request of ingest_documents: the request returns,
\* and its response holds one result for every upload, in order, each with
\* the status processed, review or failed, whatever the spreadsheets hold and
\* whatever the normalizer returned for them.
BatchIsolation ==
  /\ batch.outcome # "aborted"
  /\ Len(batch.results) = (IF batch.outcome = "none" THEN 0 ELSE batch.at - 1)
  /\ \A i \in 1..Len(batch.results) : batch.results[i].status \in {"processed", "review", "failed"}
  /\ batch.outcome = "returned" => Len(batch.results) = Len(batch.files)

\* a stored document has just been re-validated by _reanalyze_single
Revalidated == pc = "reanalyzed" /\ batch.doc \in 1..Len(db)
\* the stored bank statements that carry the account number of the document under re-analysis
SameAccount ==
  {i \in 1..Len(db) :
     /\ db[i].doc_type = DocBankStatement
     /\ db[i].extracted_fields.account_number = db[batch.doc].extracted_fields.account_number}
\* C27: when a stored bank statement is re-validated, the document whose
\* closing balance is compared with its opening balance is another document,
\* stored before it, for the same account; a statement that is the only one
\* of its account is found consistent.
PreviousIsEarlierDocument ==
  Revalidated /\ db[batch.doc].doc_type = DocBankStatement =>
    /\ batch.previous # batch.doc
    /\ batch.previous # 0 => batch.previous < batch.doc /\ batch.previous \in SameAccount
    /\ SameAccount \subseteq {batch.doc} => validation.consistency.consistent

\* re-normalization was attempted and left through the except clause: the
\* stored file of a spreadsheet was read or normalized and an exception was raised
RenormalizationFailed == Revalidated /\ db[batch.doc].is_excel
\* C28: when re-normalization raises, the fields handed to run_validations and
\* written back to the document are the fields that were stored before, and
\* has_metadata_fraud is what the stored metadata_discrepancy says.
FailedRenormalizationKeepsFields ==
  RenormalizationFailed =>
    /\ extracted = batch.before
    /\ db[batch.doc].extracted_fields = batch.before
    /\ batch.fraud = batch.before.metadata_discrepancy.present

====
